---- MODULE Spec2Model ----
(***************************************************************************)
(* Session-gated routing and data aggregation of the financial dashboard.  *)
(*                                                                         *)
(* The repository holds several variants of the edge middleware and of the *)
(* AuthProvider component; each variant is modelled and the variant in use *)
(* is fixed in the initial state.                                          *)
(*                                                                         *)
(*   EdgeSpec    the edge middleware and the auth callback route           *)
(*   ClientSpec  the AuthProvider component, the auth page's session check *)
(*               and signOut, in the browser                               *)
(*   ClientLive  ClientSpec with the fairness of the event loop            *)
(*   AggSpec     the monthly bucketing of expenses and revenue over the    *)
(*               remote tables, under the locale and time zone of the      *)
(*               runtime                                                   *)
(*   ReportSpec  the profit/loss report of ReportsPage over the lists its  *)
(*               two fetches hand over                                     *)
(*   SummarySpec the revenue summary and what is derived from it, over the *)
(*               remote tables                                             *)
(*   ChangeSpec  the month-over-month change of revenue and of expenses on *)
(*               the day and in the zone the dashboard is opened           *)
(*   AnalyticsSpec  the combined rows and the forecast of AnalyticsPage    *)
(*               over the lists its fetches hand over                      *)
(*   FractionSpec  the market revenue summed in double precision over      *)
(*               markets with fractional amounts                           *)
(*   ReadSpec    the read functions called on their own, with remote reads *)
(*               that answer or fail                                       *)
(*   FormSpec    the write functions and the submission of ExpenseForm     *)
(*   ViewSpec    the loads of the five views, with reads that resolve in   *)
(*               any order, and the auth context DashboardPage reads       *)
(*   StatusSpec  SupabaseStatus mounted and unmounted while its connection *)
(*               checks are in flight                                      *)
(*   NavSpec     the chain of redirects of one request: the guard, the     *)
(*               callback route and the navigations of the client          *)
(*   NavLive     NavSpec with every request answered and every effect run *)
(***************************************************************************)
EXTENDS Integers, Sequences, FiniteSets, Bags, TLC

VARIABLES
    mwVariant,      \* which middleware variant is deployed
    guard,          \* the last request handled at the edge and its response
    nGuard,         \* number of requests the edge has handled
    callback,       \* the last request to /auth/callback and its response
    nCallback,      \* number of callback requests handled
    apVariant,      \* which AuthProvider variant is mounted
    mounted,        \* the AuthProvider effect has run on this page
    session,        \* AuthProvider state: session
    user,           \* AuthProvider state: user
    isLoading,      \* AuthProvider state: isLoading
    pathname,       \* the current client path (usePathname)
    providerSession,\* the session the auth provider currently holds
    calls,          \* bag of the getSession() calls in flight, each with its closure
    subPath,        \* pathname captured by the subscribed callback
    pendingNav,     \* the navigation issued last and not yet committed
    so,             \* progress of a signOut() call
    lastStep,       \* what the last client step was and what it issued
    nInputs,        \* number of inputs so far: events, user navigations, sign-outs
    locale,         \* the default locale of the runtime
    tz,             \* the time zone of the runtime
    table,          \* the rows of the remote tables
    returned,       \* the last fetch and what it returned
    monthlyRevenue, \* ReportsPage state: monthlyRevenue
    monthlyExpenses,\* ReportsPage state: monthlyExpenses
    profitLossData, \* ReportsPage state: profitLossData
    loading,        \* ReportsPage state: loading
    combinedData,   \* AnalyticsPage state: combinedData
    forecastData,   \* AnalyticsPage state: forecastData
    form,           \* ExpenseForm state: the fields, loading, error and success
    pendingInsert,  \* the insertExpense call of the form that is in flight
    lastWrite,      \* the write function that settled last and how
    timers,         \* number of redirect timers of the form not yet fired
    navigated,      \* a redirect timer of the form has fired
    env,            \* which of the two environment variables of the remote client are set
    page,           \* the mounted view and its state: loading, error, data
    loads,          \* the loadData calls of the mounted view that are in flight
    called,         \* the data-access functions the mounted view has called
    pushed,         \* the mounted view has issued router.push("/auth")
    nViewInputs,    \* number of navigations, context changes and calls so far
    nLoadData,      \* number of loadData calls of the views so far
    status,         \* SupabaseStatus state: status
    errorMessage,   \* SupabaseStatus state: errorMessage
    statusMounted,  \* SupabaseStatus is mounted
    checks,         \* the connection checks in flight, each with the isMounted of its effect
    lastCheck,      \* the connection check that settled last
    guardSees,      \* the edge guard sees a session in the cookies of the request
    clientSees,     \* the client finds a session in its storage
    location,       \* the path the browser is at or has asked for
    stage,          \* the request is at the edge, the page is served, or the chain has ended
    redirected,     \* how often each path was redirected to, counted up to two
    arrival         \* the code and the exchange of a request to the callback path

edgeVars == <<mwVariant, guard, nGuard, callback, nCallback>>

clientVars ==
    <<apVariant, mounted, session, user, isLoading, pathname, providerSession,
      calls, subPath, pendingNav, so, lastStep, nInputs>>

aggVars == <<locale, tz, table, returned>>

reportVars == <<monthlyRevenue, monthlyExpenses, profitLossData, loading>>

analyticsVars == <<combinedData, forecastData>>

formVars == <<form, pendingInsert, lastWrite, timers, navigated>>

viewVars == <<env, page, loads, called, pushed, nViewInputs, nLoadData>>

statusVars == <<status, errorMessage, statusMounted, checks, lastCheck>>

navVars == <<guardSees, clientSees, location, stage, redirected, arrival>>

vars ==
    <<mwVariant, guard, nGuard, callback, nCallback,
      apVariant, mounted, session, user, isLoading, pathname, providerSession,
      calls, subPath, pendingNav, so, lastStep, nInputs,
      locale, tz, table, returned,
      monthlyRevenue, monthlyExpenses, profitLossData, loading,
      combinedData, forecastData,
      form, pendingInsert, lastWrite, timers, navigated,
      env, page, loads, called, pushed, nViewInputs, nLoadData,
      status, errorMessage, statusMounted, checks, lastCheck,
      guardSees, clientSees, location, stage, redirected, arrival>>

----------------------------------------------------------------------------
(* Bounds *)

MaxReq == 2
MaxCb == 2
MaxInFlight == 2
MaxInputs == 1
MaxRows == 2
MaxItems == 2

----------------------------------------------------------------------------
(* Paths.  A path is the sequence of its tokens, so that the string prefix *)
(* test of the code (startsWith) stays a prefix test: "/dashboardx" is     *)
(* <<"/", "dashboard", "x">> and "/dashboard/x" is                         *)
(* <<"/", "dashboard", "/", "x">>.                                         *)

NoPath == << >>
RootPath == <<"/">>
AuthPath == <<"/", "auth">>
DashboardPath == <<"/", "dashboard">>
DashboardSub == <<"/", "dashboard", "/", "x">>
DashboardLike == <<"/", "dashboard", "x">>
CallbackPath == <<"/", "auth", "/", "callback">>

Paths == {RootPath, AuthPath, DashboardPath, DashboardSub, DashboardLike, CallbackPath}

startsWith(p, q) == Len(p) >= Len(q) /\ SubSeq(p, 1, Len(q)) = q

----------------------------------------------------------------------------
(* Edge middleware *)

MwVariants == {"mw1", "mw2", "mw3"}

ResNext(debug) == [kind |-> "next", to |-> NoPath, debug |-> debug]
ResRedirect(to) == [kind |-> "redirect", to |-> to, debug |-> "none"]

\* config.matcher: "/dashboard/:path*" matches /dashboard and everything
\* below it; the later variants also match "/auth".
matcherDashboard(path) ==
    path = DashboardPath \/ startsWith(path, DashboardPath \o <<"/">>)

matcher(variant, path) ==
    IF variant = "mw1"
    THEN matcherDashboard(path)
    ELSE matcherDashboard(path) \/ path = AuthPath

\* First variant: sets the x-auth-debug header, guards /dashboard only.
middleware1(path, hasSession, threw) ==
    IF threw
    THEN [resp |-> ResNext("none"), attempts |-> 1]
    ELSE IF startsWith(path, DashboardPath) /\ ~hasSession
         THEN [resp |-> ResRedirect(AuthPath), attempts |-> 1]
         ELSE [resp |-> ResNext(IF hasSession THEN "has-session" ELSE "no-session"),
               attempts |-> 1]

\* A slip in the second variant: the protected prefix compared for equality.
middleware2ExactPath(path, hasSession, threw) ==
    IF threw
    THEN [resp |-> ResNext("none"), attempts |-> 1]
    ELSE IF path = DashboardPath
         THEN IF ~hasSession
              THEN [resp |-> ResRedirect(AuthPath), attempts |-> 1]
              ELSE [resp |-> ResNext("none"), attempts |-> 1]
         ELSE IF path = AuthPath /\ hasSession
              THEN [resp |-> ResRedirect(DashboardPath), attempts |-> 1]
              ELSE [resp |-> ResNext("none"), attempts |-> 1]

\* Second variant: if / else-if on the path.
middleware2(path, hasSession, threw) ==
    IF threw
    THEN [resp |-> ResNext("none"), attempts |-> 1]
    ELSE IF startsWith(path, DashboardPath)
         THEN IF ~hasSession
              THEN [resp |-> ResRedirect(AuthPath), attempts |-> 1]
              ELSE [resp |-> ResNext("none"), attempts |-> 1]
         ELSE IF path = AuthPath /\ hasSession
              THEN [resp |-> ResRedirect(DashboardPath), attempts |-> 1]
              ELSE [resp |-> ResNext("none"), attempts |-> 1]

\* A slip in the third variant: the catch block retries once and then
\* denies access instead of letting the request through.
middleware3FailClosed(path, hasSession, threw) ==
    IF threw
    THEN [resp |-> ResRedirect(AuthPath), attempts |-> 2]
    ELSE IF startsWith(path, DashboardPath) /\ ~hasSession
         THEN [resp |-> ResRedirect(AuthPath), attempts |-> 1]
         ELSE IF path = AuthPath /\ hasSession
              THEN [resp |-> ResRedirect(DashboardPath), attempts |-> 1]
              ELSE [resp |-> ResNext("none"), attempts |-> 1]

\* Third variant: two independent ifs.
middleware3(path, hasSession, threw) ==
    IF threw
    THEN [resp |-> ResNext("none"), attempts |-> 1]
    ELSE IF startsWith(path, DashboardPath) /\ ~hasSession
         THEN [resp |-> ResRedirect(AuthPath), attempts |-> 1]
         ELSE IF path = AuthPath /\ hasSession
              THEN [resp |-> ResRedirect(DashboardPath), attempts |-> 1]
              ELSE [resp |-> ResNext("none"), attempts |-> 1]

middleware(variant, path, hasSession, threw) ==
    CASE variant = "mw1" -> middleware1(path, hasSession, threw)
      [] variant = "mw2" -> middleware2(path, hasSession, threw)
      [] OTHER -> middleware3(path, hasSession, threw)

NoGuard ==
    [path |-> NoPath, hasSession |-> FALSE, threw |-> FALSE, matched |-> FALSE,
     attempts |-> 0, resp |-> ResNext("none")]

\* One request reaching the edge.  The request carries a valid session
\* cookie or not; the provider's getSession() may throw.  A path outside
\* config.matcher is served without the middleware running.
GuardRequest ==
    /\ nGuard < MaxReq
    /\ \E path \in Paths, hasSession \in BOOLEAN, threw \in BOOLEAN :
         LET m == matcher(mwVariant, path)
             r == middleware(mwVariant, path, hasSession, threw)
         IN  /\ (threw => m)
             /\ guard' = [path |-> path, hasSession |-> hasSession,
                          threw |-> threw, matched |-> m,
                          attempts |-> IF m THEN r.attempts ELSE 0,
                          resp |-> IF m THEN r.resp ELSE ResNext("none")]
    /\ nGuard' = nGuard + 1
    /\ UNCHANGED <<mwVariant, callback, nCallback>>
    /\ UNCHANGED clientVars
    /\ UNCHANGED aggVars
    /\ UNCHANGED reportVars
    /\ UNCHANGED analyticsVars
    /\ UNCHANGED formVars
    /\ UNCHANGED viewVars
    /\ UNCHANGED statusVars
    /\ UNCHANGED navVars

----------------------------------------------------------------------------
(* Auth callback route *)

Codes == {"absent", "empty", "abc"}
Exchanges == {"ok", "error", "throws", "notcalled"}

CbRedirect(to, query) == [kind |-> "redirect", to |-> to, query |-> query]

\* A slip in GET: a request without a code is sent back to /auth.
GETNoCodeToAuth(code, exchange) ==
    IF code = "abc"
    THEN CASE exchange = "throws" -> CbRedirect(AuthPath, "error=unexpected_error")
           [] exchange = "error" -> CbRedirect(AuthPath, "error=message")
           [] OTHER -> CbRedirect(DashboardPath, "none")
    ELSE CbRedirect(AuthPath, "error=unexpected_error")

\* GET: `if (code)` is false for a missing and for an empty code parameter.
GET(code, exchange) ==
    IF code = "abc"
    THEN CASE exchange = "throws" -> CbRedirect(AuthPath, "error=unexpected_error")
           [] exchange = "error" -> CbRedirect(AuthPath, "error=message")
           [] OTHER -> CbRedirect(DashboardPath, "none")
    ELSE CbRedirect(DashboardPath, "none")

NoCallback ==
    [code |-> "absent", exchange |-> "notcalled", resp |-> [kind |-> "none", to |-> NoPath, query |-> "none"]]

CallbackRequest ==
    /\ nCallback < MaxCb
    /\ \E code \in Codes, exchange \in Exchanges :
         /\ (code = "abc") <=> (exchange # "notcalled")
         /\ callback' = [code |-> code, exchange |-> exchange, resp |-> GET(code, exchange)]
    /\ nCallback' = nCallback + 1
    /\ UNCHANGED <<mwVariant, guard, nGuard>>
    /\ UNCHANGED clientVars
    /\ UNCHANGED aggVars
    /\ UNCHANGED reportVars
    /\ UNCHANGED analyticsVars
    /\ UNCHANGED formVars
    /\ UNCHANGED viewVars
    /\ UNCHANGED statusVars
    /\ UNCHANGED navVars

----------------------------------------------------------------------------
(* Sessions and navigations *)

NoUser == "null"
NoSession == [user |-> NoUser, token |-> 0]

Sessions ==
    {[user |-> "u1", token |-> 1], [user |-> "u2", token |-> 2]}

AllSessions == Sessions \cup {NoSession}

\* session?.user || null
userOf(s) == IF s = NoSession THEN NoUser ELSE s.user

ClientPaths == {RootPath, AuthPath, DashboardPath, DashboardSub}

Nav(kind, to) == [kind |-> kind, to |-> to]
NoNav == [kind |-> "none", to |-> NoPath]

\* The state the AuthProvider callbacks read and write.
Cur == [session |-> session, user |-> user, isLoading |-> isLoading]

After(s, u, l, navs) == [session |-> s, user |-> u, isLoading |-> l, navs |-> navs]

----------------------------------------------------------------------------
(* AuthProvider.  The source holds it four times: ap1 is                    *)
(* components/auth/auth-provider.tsx and its copy with more comments       *)
(* (the same statements), ap2 is the variant that routes on the pathname,  *)
(* ap3 the variant whose signOut uses the router.                          *)

ApVariants == {"ap1", "ap2", "ap3"}

\* ap2, "Automatic routing based on session" / "Routing logic".
routing(s, path) ==
    IF s # NoSession /\ path = AuthPath
    THEN <<Nav("replace", DashboardPath)>>
    ELSE IF s = NoSession /\ startsWith(path, DashboardPath)
         THEN <<Nav("replace", AuthPath)>>
         ELSE << >>

\* ap1, getSession: a returned error is logged and the (null) session is
\* stored; a throw leaves the state alone; finally always clears isLoading.
getSessionAp1(cur, outcome, result, path) ==
    IF outcome = "throws"
    THEN After(cur.session, cur.user, FALSE, << >>)
    ELSE After(result, userOf(result), FALSE, << >>)

\* ap2, handleAuthStateChange: a returned error clears isLoading and
\* returns; success stores the session and applies the routing policy to
\* the pathname of the closure; a throw clears isLoading.
handleAuthStateChange(cur, outcome, result, path) ==
    CASE outcome = "error" -> After(cur.session, cur.user, FALSE, << >>)
      [] outcome = "throws" -> After(cur.session, cur.user, FALSE, << >>)
      [] OTHER -> After(result, userOf(result), FALSE, routing(result, path))

\* A slip in ap3: the early return on a provider error placed before the
\* try block, so that neither setIsLoading(false) nor finally runs.
getSessionAp3NoFinally(cur, outcome, result, path) ==
    CASE outcome = "error" -> After(cur.session, cur.user, cur.isLoading, << >>)
      [] outcome = "throws" -> After(cur.session, cur.user, FALSE, << >>)
      [] OTHER -> After(result, userOf(result), FALSE, << >>)

\* ap3, getSession: a returned error clears isLoading and returns.
getSessionAp3(cur, outcome, result, path) ==
    CASE outcome = "error" -> After(cur.session, cur.user, FALSE, << >>)
      [] outcome = "throws" -> After(cur.session, cur.user, FALSE, << >>)
      [] OTHER -> After(result, userOf(result), FALSE, << >>)

getSession(variant, cur, outcome, result, path) ==
    CASE variant = "ap1" -> getSessionAp1(cur, outcome, result, path)
      [] variant = "ap2" -> handleAuthStateChange(cur, outcome, result, path)
      [] OTHER -> getSessionAp3(cur, outcome, result, path)

\* A slip in the callback: the session is stored and the user left as it was.
onAuthStateChangeKeepsUser(cur, s, path) == After(s, cur.user, FALSE, << >>)

\* The onAuthStateChange callback of ap1 and ap3: stores the notified
\* session and clears isLoading.
onAuthStateChangeAp1(cur, s, path) == After(s, userOf(s), FALSE, << >>)

\* The onAuthStateChange callback of ap2: stores the notified session and
\* applies the routing policy; isLoading is not touched.
onAuthStateChangeAp2(cur, s, path) == After(s, userOf(s), cur.isLoading, routing(s, path))

onAuthStateChange(variant, cur, s, path) ==
    IF variant = "ap2"
    THEN onAuthStateChangeAp2(cur, s, path)
    ELSE onAuthStateChangeAp1(cur, s, path)

\* signOut: the navigation follows the awaited remote call inside try; a
\* returned error is not inspected; a throw goes to catch, which only logs.
\* ap1 assigns window.location.href, ap2 and ap3 call router.push.
signOut(variant, outcome) ==
    IF outcome = "throws"
    THEN << >>
    ELSE IF variant = "ap1"
         THEN <<Nav("href", AuthPath)>>
         ELSE <<Nav("push", AuthPath)>>

\* AuthPage.checkSession: pushes /dashboard when a session is found.
checkSession(outcome, result) ==
    IF outcome # "throws" /\ result # NoSession
    THEN <<Nav("push", DashboardPath)>>
    ELSE << >>

----------------------------------------------------------------------------
(* Client steps *)

\* Only ap2 reads the pathname (usePathname) in its effect; the closures of
\* the other variants hold no path.
Closure(p) == IF apVariant = "ap2" THEN p ELSE NoPath

Call(who, path) ==
    [who |-> who, path |-> path, phase |-> "pending", outcome |-> "none",
     result |-> NoSession]

\* What the last step of a callback or continuation was: the operation, the
\* outcome and session it was given, the pathname of its closure, the
\* navigations it issued, whether it was a session-change notification and,
\* for signOut, whether the remote session had been invalidated before.
Step(op, outcome, result, closure, navs, notified, invalidated) ==
    [op |-> op, outcome |-> outcome, result |-> result, closure |-> closure,
     navs |-> navs, notified |-> notified, invalidated |-> invalidated]

\* Any other step (mounting, a navigation, the provider at work).
NoStep ==
    [op |-> "none", outcome |-> "none", result |-> NoSession, closure |-> NoPath,
     navs |-> << >>, notified |-> FALSE, invalidated |-> FALSE]

SoIdle == [phase |-> "idle", outcome |-> "none", invalidated |-> FALSE]

\* The calls in flight form a bag: their order of creation decides nothing.
InFlight == BagCardinality(calls)
Add(bag, cs) == IF cs = << >> THEN bag
                ELSE IF Len(cs) = 1 THEN bag (+) SetToBag({cs[1]})
                ELSE bag (+) SetToBag({cs[1]}) (+) SetToBag({cs[2]})
Remove(bag, c) == bag (-) SetToBag({c})

Issue(navs) == IF navs = << >> THEN pendingNav ELSE navs[Len(navs)]

\* The effect of AuthProvider runs after the first render: it starts the
\* initial session retrieval and subscribes.  On /auth the AuthPage mounts
\* too and starts its own check.
Mount ==
    /\ ~mounted
    /\ LET new == <<Call("provider", Closure(pathname))>>
                  \o (IF pathname = AuthPath
                      THEN <<Call("authPage", NoPath)>>
                      ELSE << >>)
       IN  /\ InFlight + Len(new) <= MaxInFlight
           /\ calls' = Add(calls, new)
    /\ mounted' = TRUE
    /\ subPath' = Closure(pathname)
    /\ lastStep' = NoStep
    /\ UNCHANGED <<apVariant, session, user, isLoading, pathname,
                   providerSession, pendingNav, so, nInputs>>
    /\ UNCHANGED edgeVars
    /\ UNCHANGED aggVars
    /\ UNCHANGED reportVars
    /\ UNCHANGED analyticsVars
    /\ UNCHANGED formVars
    /\ UNCHANGED viewVars
    /\ UNCHANGED statusVars
    /\ UNCHANGED navVars

\* The provider settles a getSession() call: with its current session, with
\* an error (data.session is null), or by throwing.
ProviderAnswer ==
    /\ \E c \in BagToSet(calls), outcome \in {"ok", "error", "throws"} :
         /\ c.phase = "pending"
         /\ calls' = Add(Remove(calls, c),
                         <<[c EXCEPT !.phase = "answered", !.outcome = outcome,
                                     !.result = IF outcome = "ok"
                                                THEN providerSession
                                                ELSE NoSession]>>)
    /\ UNCHANGED <<apVariant, mounted, session, user, isLoading, pathname,
                   providerSession, subPath, pendingNav, so, lastStep,
                   nInputs>>
    /\ UNCHANGED edgeVars
    /\ UNCHANGED aggVars
    /\ UNCHANGED reportVars
    /\ UNCHANGED analyticsVars
    /\ UNCHANGED formVars
    /\ UNCHANGED viewVars
    /\ UNCHANGED statusVars
    /\ UNCHANGED navVars

\* The continuation of getSession / handleAuthStateChange in AuthProvider.
GetSessionContinue ==
    /\ \E c \in BagToSet(calls) :
         /\ c.phase = "answered"
         /\ c.who = "provider"
         /\ LET a == getSession(apVariant, Cur, c.outcome, c.result, c.path)
            IN  /\ session' = a.session
                /\ user' = a.user
                /\ isLoading' = a.isLoading
                /\ pendingNav' = Issue(a.navs)
                /\ lastStep' = Step("getSession", c.outcome, c.result, c.path,
                                    a.navs, FALSE, FALSE)
         /\ calls' = Remove(calls, c)
    /\ UNCHANGED <<apVariant, mounted, pathname, providerSession, subPath,
                   so, nInputs>>
    /\ UNCHANGED edgeVars
    /\ UNCHANGED aggVars
    /\ UNCHANGED reportVars
    /\ UNCHANGED analyticsVars
    /\ UNCHANGED formVars
    /\ UNCHANGED viewVars
    /\ UNCHANGED statusVars
    /\ UNCHANGED navVars

\* The continuation of AuthPage.checkSession.
AuthPageContinue ==
    /\ \E c \in BagToSet(calls) :
         /\ c.phase = "answered"
         /\ c.who = "authPage"
         /\ LET navs == checkSession(c.outcome, c.result)
            IN  /\ pendingNav' = Issue(navs)
                /\ lastStep' = Step("checkSession", c.outcome, c.result, c.path,
                                    navs, FALSE, FALSE)
         /\ calls' = Remove(calls, c)
    /\ UNCHANGED <<apVariant, mounted, session, user, isLoading, pathname,
                   providerSession, subPath, so, nInputs>>
    /\ UNCHANGED edgeVars
    /\ UNCHANGED aggVars
    /\ UNCHANGED reportVars
    /\ UNCHANGED analyticsVars
    /\ UNCHANGED formVars
    /\ UNCHANGED viewVars
    /\ UNCHANGED statusVars
    /\ UNCHANGED navVars

\* A sign-in, sign-out or token refresh: the provider's session changes and
\* the subscribed callback, if any, is invoked with it.
AuthEvent ==
    /\ nInputs < MaxInputs
    /\ \E s \in AllSessions :
         /\ providerSession' = s
         /\ IF mounted
            THEN LET a == onAuthStateChange(apVariant, Cur, s, subPath)
                 IN  /\ session' = a.session
                     /\ user' = a.user
                     /\ isLoading' = a.isLoading
                     /\ pendingNav' = Issue(a.navs)
                     /\ lastStep' = Step("authEvent", "ok", s, subPath, a.navs,
                                         TRUE, FALSE)
            ELSE /\ UNCHANGED <<session, user, isLoading, pendingNav>>
                 /\ lastStep' = NoStep
    /\ nInputs' = nInputs + 1
    /\ UNCHANGED <<apVariant, mounted, pathname, calls, subPath, so>>
    /\ UNCHANGED edgeVars
    /\ UNCHANGED aggVars
    /\ UNCHANGED reportVars
    /\ UNCHANGED analyticsVars
    /\ UNCHANGED formVars
    /\ UNCHANGED viewVars
    /\ UNCHANGED statusVars
    /\ UNCHANGED navVars

\* The client arrives at path p without a page load.  ap2 lists pathname in
\* the dependencies of its effect: the effect is cleaned up and run again,
\* which starts a new retrieval and subscribes a callback closed over p.
\* Arriving at /auth mounts the AuthPage.
NewCalls(p) ==
    (IF apVariant = "ap2" THEN <<Call("provider", p)>> ELSE << >>)
    \o (IF p = AuthPath THEN <<Call("authPage", NoPath)>> ELSE << >>)

Arrive(p) ==
    IF p = pathname
    THEN UNCHANGED <<pathname, calls, subPath>>
    ELSE /\ pathname' = p
         /\ InFlight + Len(NewCalls(p)) <= MaxInFlight
         /\ calls' = Add(calls, NewCalls(p))
         /\ subPath' = IF apVariant = "ap2" THEN p ELSE subPath

\* The user follows a link of the application.
UserNavigate ==
    /\ mounted
    /\ nInputs < MaxInputs
    /\ \E p \in ClientPaths \ {pathname} :
         /\ Arrive(p)
         /\ lastStep' = NoStep
    /\ nInputs' = nInputs + 1
    /\ UNCHANGED <<apVariant, mounted, session, user, isLoading,
                   providerSession, pendingNav, so>>
    /\ UNCHANGED edgeVars
    /\ UNCHANGED aggVars
    /\ UNCHANGED reportVars
    /\ UNCHANGED analyticsVars
    /\ UNCHANGED formVars
    /\ UNCHANGED viewVars
    /\ UNCHANGED statusVars
    /\ UNCHANGED navVars

\* The router carries out the navigation issued last.  router.replace and
\* router.push keep the page; window.location.href loads a new page, which
\* discards the component state and every pending continuation.
NavigationCommit ==
    /\ pendingNav # NoNav
    /\ IF pendingNav.kind = "href"
       THEN /\ pathname' = pendingNav.to
            /\ mounted' = FALSE
            /\ session' = NoSession
            /\ user' = NoUser
            /\ isLoading' = TRUE
            /\ calls' = EmptyBag
            /\ subPath' = NoPath
            /\ so' = SoIdle
       ELSE /\ Arrive(pendingNav.to)
            /\ UNCHANGED <<mounted, session, user, isLoading, so>>
    /\ pendingNav' = NoNav
    /\ lastStep' = NoStep
    /\ UNCHANGED <<apVariant, providerSession, nInputs>>
    /\ UNCHANGED edgeVars
    /\ UNCHANGED aggVars
    /\ UNCHANGED reportVars
    /\ UNCHANGED analyticsVars
    /\ UNCHANGED formVars
    /\ UNCHANGED viewVars
    /\ UNCHANGED statusVars
    /\ UNCHANGED navVars

\* signOut() is called: supabase.auth.signOut() is awaited.
SignOutCall ==
    /\ mounted
    /\ so.phase = "idle"
    /\ nInputs < MaxInputs
    /\ so' = [phase |-> "pending", outcome |-> "none", invalidated |-> FALSE]
    /\ nInputs' = nInputs + 1
    /\ lastStep' = NoStep
    /\ UNCHANGED <<apVariant, mounted, session, user, isLoading, pathname,
                   providerSession, calls, subPath, pendingNav>>
    /\ UNCHANGED edgeVars
    /\ UNCHANGED aggVars
    /\ UNCHANGED reportVars
    /\ UNCHANGED analyticsVars
    /\ UNCHANGED formVars
    /\ UNCHANGED viewVars
    /\ UNCHANGED statusVars
    /\ UNCHANGED navVars

\* The remote sign-out settles.  On success the provider drops its session
\* and notifies the subscribed callback (SIGNED_OUT) before the promise
\* resolves; on a returned error or a throw the session stays.
SignOutRemote ==
    /\ so.phase = "pending"
    /\ \E outcome \in {"ok", "error", "throws"} :
         /\ so' = [so EXCEPT !.phase = "settled", !.outcome = outcome,
                             !.invalidated = (outcome = "ok")]
         /\ IF outcome = "ok"
            THEN LET a == onAuthStateChange(apVariant, Cur, NoSession, subPath)
                 IN  /\ providerSession' = NoSession
                     /\ session' = a.session
                     /\ user' = a.user
                     /\ isLoading' = a.isLoading
                     /\ pendingNav' = Issue(a.navs)
                     /\ lastStep' = Step("signOutRemote", outcome, NoSession, subPath,
                                         a.navs, TRUE, TRUE)
            ELSE /\ UNCHANGED <<providerSession, session, user, isLoading, pendingNav>>
                 /\ lastStep' = NoStep
    /\ UNCHANGED <<apVariant, mounted, pathname, calls, subPath, nInputs>>
    /\ UNCHANGED edgeVars
    /\ UNCHANGED aggVars
    /\ UNCHANGED reportVars
    /\ UNCHANGED analyticsVars
    /\ UNCHANGED formVars
    /\ UNCHANGED viewVars
    /\ UNCHANGED statusVars
    /\ UNCHANGED navVars

\* The continuation of signOut() after the await; the step records whether
\* the remote session had been invalidated when it ran.
SignOutContinue ==
    /\ so.phase = "settled"
    /\ LET navs == signOut(apVariant, so.outcome)
       IN  /\ so' = SoIdle
           /\ pendingNav' = Issue(navs)
           /\ lastStep' = Step("signOut", so.outcome, NoSession, NoPath, navs,
                               FALSE, so.invalidated)
    /\ UNCHANGED <<apVariant, mounted, session, user, isLoading, pathname,
                   providerSession, calls, subPath, nInputs>>
    /\ UNCHANGED edgeVars
    /\ UNCHANGED aggVars
    /\ UNCHANGED reportVars
    /\ UNCHANGED analyticsVars
    /\ UNCHANGED formVars
    /\ UNCHANGED viewVars
    /\ UNCHANGED statusVars
    /\ UNCHANGED navVars

----------------------------------------------------------------------------
(* The remote tables and the runtime of the aggregation *)

Sources == {"expense", "order", "market", "course"}

Locales == {"en-US", "en-GB"}
TimeZones == {"utc", "behind"}

Date(y, m, d) == [y |-> y, m |-> m, d |-> d]

\* The stored dates: each is the instant 00:00 UTC of its day.
Dates == {Date(2023, 12, 31), Date(2024, 1, 1), Date(2024, 3, 15), Date(2024, 9, 15)}

Years == {2023, 2024}

Row(source, date, amount, shipping, rowStatus) ==
    [source |-> source, date |-> date, amount |-> amount,
     shipping |-> shipping, status |-> rowStatus]

ExpenseRows == {Row("expense", d, a, 0, "none") : d \in Dates, a \in {30, 50}}
OrderRows == {Row("order", d, 50, 5, st) : d \in Dates, st \in {"completed", "pending"}}
MarketRows == {Row("market", d, 30, 0, "none") : d \in Dates}
CourseRows == {Row("course", d, 50, 0, "none") : d \in Dates}

\* a <= b on dates, as the store compares them
DateLeq(a, b) ==
    \/ a.y < b.y
    \/ a.y = b.y /\ a.m < b.m
    \/ a.y = b.y /\ a.m = b.m /\ a.d <= b.d

\* An argument that was not passed (undefined).
NoDate == Date(0, 0, 0)

\* if (dateFrom) .gte(column, dateFrom); if (dateTo) .lte(column, dateTo)
inRange(date, dateFrom, dateTo) ==
    /\ (dateFrom # NoDate => DateLeq(dateFrom, date))
    /\ (dateTo # NoDate => DateLeq(date, dateTo))

\* .order("date", { ascending: false }); rows of one date keep their order.
RECURSIVE orderByDateDesc(_)
orderByDateDesc(rows) ==
    IF rows = << >>
    THEN << >>
    ELSE LET rest == orderByDateDesc(Tail(rows))
             h == Head(rows)
         IN  SelectSeq(rest, LAMBDA r : ~DateLeq(r.date, h.date))
             \o <<h>>
             \o SelectSeq(rest, LAMBDA r : DateLeq(r.date, h.date))

startDate(year) == Date(year, 1, 1)
endDate(year) == Date(year, 12, 31)

\* new Date(s) takes s as an instant in UTC; toLocaleString and getFullYear
\* read it in the time zone of the runtime.  West of Greenwich the instant
\* 00:00 UTC lies on the day before.
localMonth(date, zone) ==
    IF zone = "behind" /\ date.d = 1
    THEN (IF date.m = 1 THEN 12 ELSE date.m - 1)
    ELSE date.m

localYear(date, zone) ==
    IF zone = "behind" /\ date.d = 1 /\ date.m = 1 THEN date.y - 1 ELSE date.y

\* The keys the bucketing functions initialise.
months == <<"Jan", "Feb", "Mar", "Apr", "May", "Jun",
            "Jul", "Aug", "Sep", "Oct", "Nov", "Dec">>

\* date.toLocaleString("default", { month: "short" }): "default" selects the
\* default locale of the runtime; the British abbreviation of September has
\* four letters.
monthShort(date, loc, zone) ==
    IF loc = "en-GB" /\ localMonth(date, zone) = 9
    THEN "Sept"
    ELSE months[localMonth(date, zone)]

\* Numbers of the runtime: undefined + n is NaN and NaN + n is NaN.
Num(n) == [nan |-> FALSE, v |-> n]
NaN == [nan |-> TRUE, v |-> 0]
plus(t, n) == IF t.nan THEN NaN ELSE Num(t.v + n)

hasKey(entries, month) == \E i \in DOMAIN entries : entries[i].month = month

\* payment_status?.toUpperCase()
toUpperCase(st) ==
    CASE st = "completed" -> "COMPLETED"
      [] st = "pending" -> "PENDING"
      [] OTHER -> st

paidStatuses == {"PAID", "COMPLETED", "SETTLED", "PROCESSED", "APPROVED"}

\* The rows of one table in a date window; a failed read throws inside the
\* function, whose catch returns [].
select(tbl, source, dateFrom, dateTo) ==
    SelectSeq(tbl, LAMBDA r : r.source = source /\ inRange(r.date, dateFrom, dateTo))

fetchOrders(tbl, dateFrom, dateTo, readFails) ==
    IF readFails THEN << >>
    ELSE SelectSeq(orderByDateDesc(select(tbl, "order", dateFrom, dateTo)),
                   LAMBDA r : toUpperCase(r.status) \in paidStatuses)

fetchMarkets(tbl, dateFrom, dateTo, readFails) ==
    IF readFails THEN << >>
    ELSE orderByDateDesc(select(tbl, "market", dateFrom, dateTo))

fetchCourses(tbl, dateFrom, dateTo, readFails) ==
    IF readFails THEN << >>
    ELSE orderByDateDesc(select(tbl, "course", dateFrom, dateTo))

----------------------------------------------------------------------------
(* fetchMonthlyExpenses *)

\* Object.entries(monthlyTotals): the twelve keys in the order they were
\* written, then any key added later.
monthlyTotals0 == [i \in 1..12 |-> [month |-> months[i], total |-> Num(0)]]

\* monthlyTotals[month] += amount
addTotal(totals, month, amount) ==
    IF hasKey(totals, month)
    THEN [i \in DOMAIN totals |->
            IF totals[i].month = month
            THEN [totals[i] EXCEPT !.total = plus(@, amount)]
            ELSE totals[i]]
    ELSE Append(totals, [month |-> month, total |-> NaN])

RECURSIVE bucketExpenses(_, _, _, _)
bucketExpenses(data, totals, loc, zone) ==
    IF data = << >>
    THEN totals
    ELSE bucketExpenses(Tail(data),
                        addTotal(totals, monthShort(Head(data).date, loc, zone),
                                 Head(data).amount),
                        loc, zone)

fetchMonthlyExpenses(tbl, year, readFails, loc, zone) ==
    IF readFails
    THEN << >>
    ELSE bucketExpenses(select(tbl, "expense", startDate(year), endDate(year)),
                        monthlyTotals0, loc, zone)

\* fetchExpenses: a bound is applied only if it was passed; a failed read
\* is caught and [] returned.
fetchExpenses(tbl, dateFrom, dateTo, readFails) ==
    IF readFails
    THEN << >>
    ELSE orderByDateDesc(select(tbl, "expense", dateFrom, dateTo))

\* The loop of fetchMonthlyExpenses in ReportsPage: a row is bucketed only
\* if date.getFullYear() is the year asked for.
RECURSIVE bucketExpensesOfYear(_, _, _, _, _)
bucketExpensesOfYear(expenses, year, totals, loc, zone) ==
    IF expenses = << >>
    THEN totals
    ELSE bucketExpensesOfYear(
             Tail(expenses), year,
             IF localYear(Head(expenses).date, zone) = year
             THEN addTotal(totals, monthShort(Head(expenses).date, loc, zone),
                           Head(expenses).amount)
             ELSE totals,
             loc, zone)

\* fetchMonthlyExpenses of ReportsPage (and of AnalyticsPage): reads every
\* expense with fetchExpenses() and selects the year in the loop.
ReportsPage_fetchMonthlyExpenses(tbl, year, readFails, loc, zone) ==
    bucketExpensesOfYear(fetchExpenses(tbl, NoDate, NoDate, readFails), year,
                         monthlyTotals0, loc, zone)

----------------------------------------------------------------------------
(* fetchRevenueByMonth *)

monthlyData0 ==
    [i \in 1..12 |-> [month |-> months[i], orderRevenue |-> 0, marketRevenue |-> 0,
                      courseRevenue |-> 0, totalRevenue |-> 0]]

\* What a row adds: total_amount + (shipping_cost || 0) for an order,
\* final_incoming || 0 for a market, total_amount || 0 for a course.
revenueOf(r) == IF r.source = "order" THEN r.amount + r.shipping ELSE r.amount

addRevenue(data, month, field, amount) ==
    [i \in DOMAIN data |->
        IF data[i].month = month
        THEN [data[i] EXCEPT ![field] = @ + amount, !.totalRevenue = @ + amount]
        ELSE data[i]]

\* One forEach over the rows of a source.  monthlyData[month] of a label that
\* is no key is undefined, and reading a property of it throws.
RECURSIVE process(_, _, _, _, _)
process(rows, field, monthly, loc, zone) ==
    IF rows = << >> \/ monthly.threw
    THEN monthly
    ELSE LET month == monthShort(Head(rows).date, loc, zone)
         IN  IF hasKey(monthly.data, month)
             THEN process(Tail(rows), field,
                          [threw |-> FALSE,
                           data |-> addRevenue(monthly.data, month, field,
                                               revenueOf(Head(rows)))],
                          loc, zone)
             ELSE [threw |-> TRUE, data |-> monthly.data]

fetchRevenueByMonth(tbl, year, readFails, loc, zone) ==
    LET orders == fetchOrders(tbl, startDate(year), endDate(year), readFails)
        markets == fetchMarkets(tbl, startDate(year), endDate(year), readFails)
        courses == fetchCourses(tbl, startDate(year), endDate(year), readFails)
        m0 == [threw |-> FALSE, data |-> monthlyData0]
        m1 == process(orders, "orderRevenue", m0, loc, zone)
        m2 == process(markets, "marketRevenue", m1, loc, zone)
        m3 == process(courses, "courseRevenue", m2, loc, zone)
    IN  IF m3.threw THEN << >> ELSE m3.data

----------------------------------------------------------------------------
(* Aggregation steps *)

Result(kind, year, readFails, entries) ==
    [kind |-> kind, year |-> year, readFails |-> readFails, entries |-> entries]

NoResult == Result("none", 0, FALSE, << >>)

\* insertExpense stores a row of the expense form.
insertExpense ==
    /\ Len(table) < MaxRows
    /\ \E r \in ExpenseRows : table' = Append(table, r)
    /\ returned' = NoResult
    /\ UNCHANGED <<locale, tz>>
    /\ UNCHANGED edgeVars
    /\ UNCHANGED clientVars
    /\ UNCHANGED reportVars
    /\ UNCHANGED analyticsVars
    /\ UNCHANGED formVars
    /\ UNCHANGED viewVars
    /\ UNCHANGED statusVars
    /\ UNCHANGED navVars

\* Orders, markets and courses are written by other applications.
RemoteInsert ==
    /\ Len(table) < MaxRows
    /\ \E r \in OrderRows \cup MarketRows \cup CourseRows : table' = Append(table, r)
    /\ returned' = NoResult
    /\ UNCHANGED <<locale, tz>>
    /\ UNCHANGED edgeVars
    /\ UNCHANGED clientVars
    /\ UNCHANGED reportVars
    /\ UNCHANGED analyticsVars
    /\ UNCHANGED formVars
    /\ UNCHANGED viewVars
    /\ UNCHANGED statusVars
    /\ UNCHANGED navVars

FetchMonthlyExpenses ==
    /\ \E year \in Years, readFails \in BOOLEAN :
         returned' = Result("expenses", year, readFails,
                          fetchMonthlyExpenses(table, year, readFails, locale, tz))
    /\ UNCHANGED <<locale, tz, table>>
    /\ UNCHANGED edgeVars
    /\ UNCHANGED clientVars
    /\ UNCHANGED reportVars
    /\ UNCHANGED analyticsVars
    /\ UNCHANGED formVars
    /\ UNCHANGED viewVars
    /\ UNCHANGED statusVars
    /\ UNCHANGED navVars

ReportsFetchMonthlyExpenses ==
    /\ \E year \in Years, readFails \in BOOLEAN :
         returned' = Result("pageExpenses", year, readFails,
                            ReportsPage_fetchMonthlyExpenses(table, year, readFails,
                                                             locale, tz))
    /\ UNCHANGED <<locale, tz, table>>
    /\ UNCHANGED edgeVars
    /\ UNCHANGED clientVars
    /\ UNCHANGED reportVars
    /\ UNCHANGED analyticsVars
    /\ UNCHANGED formVars
    /\ UNCHANGED viewVars
    /\ UNCHANGED statusVars
    /\ UNCHANGED navVars

FetchRevenueByMonth ==
    /\ \E year \in Years, readFails \in BOOLEAN :
         returned' = Result("revenue", year, readFails,
                          fetchRevenueByMonth(table, year, readFails, locale, tz))
    /\ UNCHANGED <<locale, tz, table>>
    /\ UNCHANGED edgeVars
    /\ UNCHANGED clientVars
    /\ UNCHANGED reportVars
    /\ UNCHANGED analyticsVars
    /\ UNCHANGED formVars
    /\ UNCHANGED viewVars
    /\ UNCHANGED statusVars
    /\ UNCHANGED navVars

AggStart ==
    /\ locale = "en-US"
    /\ tz = "utc"
    /\ table = << >>
    /\ returned = NoResult

\* ReportsPage after construction: useState([]) three times, useState(true).
ReportStart ==
    /\ monthlyRevenue = << >>
    /\ monthlyExpenses = << >>
    /\ profitLossData = << >>
    /\ loading = TRUE

\* AnalyticsPage after construction: useState([]) for both.
AnalyticsStart ==
    /\ combinedData = << >>
    /\ forecastData = << >>

\* No chain of navigations is followed.
NavStart ==
    /\ guardSees = FALSE
    /\ clientSees = FALSE
    /\ location = RootPath
    /\ stage = "settled"
    /\ redirected = [p \in Paths |-> 0]
    /\ arrival = [code |-> "absent", exchange |-> "notcalled"]

\* SupabaseStatus is not mounted and no connection check is in flight.
StatusStart ==
    /\ status = "loading"
    /\ errorMessage = "null"
    /\ statusMounted = FALSE
    /\ checks = << >>
    /\ lastCheck = [outcome |-> "none", isMounted |-> FALSE]

\* No view is mounted; both environment variables are set.
ViewStart ==
    /\ env = [url |-> TRUE, anonKey |-> TRUE]
    /\ page = [view |-> "none", loading |-> FALSE, error |-> "null", data |-> << >>]
    /\ loads = << >>
    /\ called = {}
    /\ pushed = FALSE
    /\ nViewInputs = 0
    /\ nLoadData = 0

\* ExpenseForm after construction: empty fields, the date of today, no message; no write in flight and no timer.
FormStart ==
    /\ form = [description |-> "", amount |-> "", date |-> "2024-01-15", categoryId |-> "", note |-> "",
               loading |-> FALSE, error |-> "null", success |-> "null"]
    /\ pendingInsert = [inFlight |-> FALSE, expense |-> << >>]
    /\ lastWrite = [fn |-> "none", writeFails |-> FALSE, settled |-> "none"]
    /\ timers = 0
    /\ navigated = FALSE

----------------------------------------------------------------------------
(* Specification of the client *)

EdgeStart ==
    /\ guard = NoGuard
    /\ nGuard = 0
    /\ callback = NoCallback
    /\ nCallback = 0

ClientStart ==
    /\ mounted = FALSE
    /\ session = NoSession
    /\ user = NoUser
    /\ isLoading = TRUE
    /\ calls = EmptyBag
    /\ subPath = NoPath
    /\ pendingNav = NoNav
    /\ so = SoIdle
    /\ lastStep = NoStep
    /\ nInputs = 0

ClientInit ==
    /\ apVariant \in ApVariants
    /\ pathname \in ClientPaths
    /\ providerSession \in AllSessions
    /\ ClientStart
    /\ mwVariant = "mw1"
    /\ EdgeStart
    /\ AggStart
    /\ ReportStart
    /\ AnalyticsStart
    /\ NavStart
    /\ StatusStart
    /\ ViewStart
    /\ FormStart

ClientNext ==
    \/ Mount
    \/ ProviderAnswer
    \/ GetSessionContinue
    \/ AuthPageContinue
    \/ AuthEvent
    \/ UserNavigate
    \/ NavigationCommit
    \/ SignOutCall
    \/ SignOutRemote
    \/ SignOutContinue

ClientSpec == ClientInit /\ [][ClientNext]_vars

\* Every promise of the provider settles and the event loop runs every
\* continuation that is ready.
ClientLive ==
    /\ ClientInit
    /\ [][ClientNext]_vars
    /\ WF_vars(Mount)
    /\ WF_vars(ProviderAnswer)
    /\ WF_vars(GetSessionContinue)
    /\ WF_vars(AuthPageContinue)

----------------------------------------------------------------------------
(* Specification of the edge *)

EdgeInit ==
    /\ mwVariant \in MwVariants
    /\ EdgeStart
    /\ apVariant = "ap1"
    /\ pathname = RootPath
    /\ providerSession = NoSession
    /\ ClientStart
    /\ AggStart
    /\ ReportStart
    /\ AnalyticsStart
    /\ NavStart
    /\ StatusStart
    /\ ViewStart
    /\ FormStart

EdgeNext == GuardRequest \/ CallbackRequest

EdgeSpec == EdgeInit /\ [][EdgeNext]_vars

----------------------------------------------------------------------------
(* Specification of the aggregation *)

AggInit ==
    /\ locale \in Locales
    /\ tz \in TimeZones
    /\ table = << >>
    /\ returned = NoResult
    /\ mwVariant = "mw1"
    /\ EdgeStart
    /\ apVariant = "ap1"
    /\ pathname = RootPath
    /\ providerSession = NoSession
    /\ ClientStart
    /\ ReportStart
    /\ AnalyticsStart
    /\ NavStart
    /\ StatusStart
    /\ ViewStart
    /\ FormStart

AggNext ==
    \/ insertExpense
    \/ RemoteInsert
    \/ FetchMonthlyExpenses
    \/ ReportsFetchMonthlyExpenses
    \/ FetchRevenueByMonth

AggSpec == AggInit /\ [][AggNext]_vars

----------------------------------------------------------------------------
(* Numbers of the runtime.  A finite number is an exact fraction n/d in     *)
(* lowest terms with d > 0 (the rounding of the binary representation is   *)
(* left out); the other values are Infinity, -Infinity, NaN and undefined. *)

abs(i) == IF i < 0 THEN 0 - i ELSE i

RECURSIVE gcd(_, _)
gcd(a, b) == IF b = 0 THEN a ELSE gcd(b, a % b)

Q(n, d) ==
    LET g == gcd(abs(n), abs(d))
        s == IF d < 0 THEN 0 - 1 ELSE 1
    IN  [k |-> "num", n |-> (s * n) \div g, d |-> abs(d) \div g]

QNaN == [k |-> "nan", n |-> 0, d |-> 1]
QInf == [k |-> "inf", n |-> 0, d |-> 1]
QNegInf == [k |-> "ninf", n |-> 0, d |-> 1]
QUndefined == [k |-> "undefined", n |-> 0, d |-> 1]

\* the sign of a value that is not NaN
sgn(a) ==
    CASE a.k = "inf" -> 1
      [] a.k = "ninf" -> 0 - 1
      [] OTHER -> IF a.n > 0 THEN 1 ELSE IF a.n < 0 THEN 0 - 1 ELSE 0

isNaN(a) == a.k \in {"nan", "undefined"}

\* a + b
qadd(a, b) ==
    CASE isNaN(a) \/ isNaN(b) -> QNaN
      [] a.k = "num" /\ b.k = "num" -> Q(a.n * b.d + b.n * a.d, a.d * b.d)
      [] a.k = "num" -> b
      [] b.k = "num" -> a
      [] a.k = b.k -> a
      [] OTHER -> QNaN

\* -a
qneg(a) ==
    CASE isNaN(a) -> QNaN
      [] a.k = "inf" -> QNegInf
      [] a.k = "ninf" -> QInf
      [] OTHER -> Q(0 - a.n, a.d)

\* a - b
qsub(a, b) == qadd(a, qneg(b))

signed(s) == IF s = 0 THEN QNaN ELSE IF s > 0 THEN QInf ELSE QNegInf

\* a * b
qmul(a, b) ==
    CASE isNaN(a) \/ isNaN(b) -> QNaN
      [] a.k = "num" /\ b.k = "num" -> Q(a.n * b.n, a.d * b.d)
      [] OTHER -> signed(sgn(a) * sgn(b))

\* a / b (a zero divisor counts as +0)
qdiv(a, b) ==
    CASE isNaN(a) \/ isNaN(b) -> QNaN
      [] a.k = "num" /\ b.k = "num" ->
            IF b.n = 0 THEN signed(sgn(a)) ELSE Q(a.n * b.d, a.d * b.n)
      [] a.k = "num" -> Q(0, 1)
      [] b.k = "num" -> signed(sgn(a) * (IF b.n < 0 THEN 0 - 1 ELSE 1))
      [] OTHER -> QNaN

\* a < b; every comparison with NaN is false
qlt(a, b) ==
    CASE isNaN(a) \/ isNaN(b) -> FALSE
      [] a.k = "num" /\ b.k = "num" -> a.n * b.d < b.n * a.d
      [] a.k = "ninf" -> b.k # "ninf"
      [] b.k = "inf" -> a.k # "inf"
      [] OTHER -> FALSE

\* a > b
qgt(a, b) == qlt(b, a)

\* Math.min, Math.max: NaN if an argument is NaN
MathMin(a, b) == IF isNaN(a) \/ isNaN(b) THEN QNaN ELSE IF qlt(b, a) THEN b ELSE a
MathMax(a, b) == IF isNaN(a) \/ isNaN(b) THEN QNaN ELSE IF qlt(a, b) THEN b ELSE a

\* x || 0: undefined, NaN and 0 are falsy
orZero(x) == IF isNaN(x) \/ x = Q(0, 1) THEN Q(0, 1) ELSE x

----------------------------------------------------------------------------
(* ReportsPage: generateProfitLossData *)

\* The month labels in the order of Array.prototype.sort() without a
\* comparator: by UTF-16 code units.
codeUnitOrder ==
    <<"Apr", "Aug", "Dec", "Feb", "Jan", "Jul", "Jun", "Mar", "May", "Nov",
      "Oct", "Sep", "Sept">>

labels(data) == {data[i].month : i \in DOMAIN data}

\* revenueByMonth[month] after the forEach: the value of the last item of
\* that month, undefined if there is none.
revenueByMonth(revenueData, month) ==
    LET at == {i \in DOMAIN revenueData : revenueData[i].month = month}
    IN  IF at = {} THEN QUndefined
        ELSE revenueData[CHOOSE i \in at : \A j \in at : j <= i].totalRevenue

expensesByMonth(expenseData, month) ==
    LET at == {i \in DOMAIN expenseData : expenseData[i].month = month}
    IN  IF at = {} THEN QUndefined
        ELSE expenseData[CHOOSE i \in at : \A j \in at : j <= i].total

\* [...new Set([...keys, ...keys])].sort()
allMonths(revenueData, expenseData) ==
    SelectSeq(codeUnitOrder,
              LAMBDA m : m \in labels(revenueData) \cup labels(expenseData))

profitLossRow(month, revenue, expenses) ==
    [month |-> month,
     revenue |-> revenue,
     expenses |-> expenses,
     profit |-> qsub(revenue, expenses),
     profitMargin |-> IF qgt(revenue, Q(0, 1))
                      THEN qmul(qdiv(qsub(revenue, expenses), revenue), Q(100, 1))
                      ELSE Q(0, 1)]

\* A slip: the months are taken from the revenue list alone.
generateProfitLossDataRevenueMonths(revenueData, expenseData) ==
    LET all == allMonths(revenueData, << >>)
    IN  [i \in 1..Len(all) |->
            profitLossRow(all[i],
                          orZero(revenueByMonth(revenueData, all[i])),
                          orZero(expensesByMonth(expenseData, all[i])))]

generateProfitLossData(revenueData, expenseData) ==
    LET all == allMonths(revenueData, expenseData)
    IN  [i \in 1..Len(all) |->
            profitLossRow(all[i],
                          orZero(revenueByMonth(revenueData, all[i])),
                          orZero(expensesByMonth(expenseData, all[i])))]

\* What the two fetches of loadData may hand over.
ReportMonths == {"Jan", "Feb"}
RevenueValues == {Q(0 - 100, 1), Q(0, 1), Q(100, 1)}
ExpenseValues == {Q(0, 1), Q(40, 1), QNaN}

SeqsUpTo(S, n) == UNION {[1..k -> S] : k \in 0..n}

FullYearRevenue == [i \in 1..12 |-> [month |-> months[i], totalRevenue |-> Q(100, 1)]]
FullYearExpenses == [i \in 1..12 |-> [month |-> months[i], total |-> Q(40, 1)]]

RevenueLists ==
    SeqsUpTo([month : ReportMonths, totalRevenue : RevenueValues], MaxItems)
    \cup {FullYearRevenue}

ExpenseLists ==
    SeqsUpTo([month : ReportMonths, total : ExpenseValues], MaxItems)
    \cup {FullYearExpenses}

\* loadData of ReportsPage once both fetches have resolved: the lists are
\* stored, the report generated and loading cleared.
ReportsLoadData ==
    /\ loading
    /\ \E revenue \in RevenueLists, expenses \in ExpenseLists :
         /\ monthlyRevenue' = revenue
         /\ monthlyExpenses' = expenses
         /\ profitLossData' = generateProfitLossData(revenue, expenses)
    /\ loading' = FALSE
    /\ UNCHANGED edgeVars
    /\ UNCHANGED clientVars
    /\ UNCHANGED aggVars
    /\ UNCHANGED analyticsVars
    /\ UNCHANGED formVars
    /\ UNCHANGED viewVars
    /\ UNCHANGED statusVars
    /\ UNCHANGED navVars

ReportInit ==
    /\ ReportStart
    /\ AnalyticsStart
    /\ NavStart
    /\ StatusStart
    /\ ViewStart
    /\ FormStart
    /\ mwVariant = "mw1"
    /\ EdgeStart
    /\ apVariant = "ap1"
    /\ pathname = RootPath
    /\ providerSession = NoSession
    /\ ClientStart
    /\ AggStart

ReportNext == ReportsLoadData

ReportSpec == ReportInit /\ [][ReportNext]_vars

----------------------------------------------------------------------------
(* fetchRevenueSummary *)

RECURSIVE sumRevenue(_)
sumRevenue(rows) ==
    IF rows = << >> THEN 0 ELSE revenueOf(Head(rows)) + sumRevenue(Tail(rows))

Summary(orders, markets, courses) ==
    [totalRevenue |-> sumRevenue(orders) + sumRevenue(markets) + sumRevenue(courses),
     orderRevenue |-> sumRevenue(orders),
     marketRevenue |-> sumRevenue(markets),
     courseRevenue |-> sumRevenue(courses),
     orderCount |-> Len(orders),
     marketCount |-> Len(markets),
     courseCount |-> Len(courses)]

\* A slip: the shipping cost of the orders left out of the order revenue.
fetchRevenueSummaryNoShipping(tbl, dateFrom, dateTo, readFails) ==
    LET s == Summary(fetchOrders(tbl, dateFrom, dateTo, readFails),
                     fetchMarkets(tbl, dateFrom, dateTo, readFails),
                     fetchCourses(tbl, dateFrom, dateTo, readFails))
    IN  [s EXCEPT !.orderRevenue = @ - 5 * s.orderCount]

\* The three reads never reject (each catches its own error), so the catch
\* of fetchRevenueSummary stays unused.
fetchRevenueSummary(tbl, dateFrom, dateTo, readFails) ==
    Summary(fetchOrders(tbl, dateFrom, dateTo, readFails),
            fetchMarkets(tbl, dateFrom, dateTo, readFails),
            fetchCourses(tbl, dateFrom, dateTo, readFails))

----------------------------------------------------------------------------
(* fetchRevenueBySource and the revenue breakdown of DashboardPage *)

RevenueBySource(source, amount, percentage) ==
    [source |-> source, amount |-> amount, percentage |-> percentage]

\* (amount / totalRevenue) * 100
percentOf(amount, totalRevenue) ==
    qmul(qdiv(Q(amount, 1), Q(totalRevenue, 1)), Q(100, 1))

\* const totalRevenue = summary.totalRevenue || 1
fetchRevenueBySource(tbl, dateFrom, dateTo, readFails) ==
    LET summary == fetchRevenueSummary(tbl, dateFrom, dateTo, readFails)
        totalRevenue == IF summary.totalRevenue = 0 THEN 1 ELSE summary.totalRevenue
    IN  <<RevenueBySource("Orders", summary.orderRevenue,
                          percentOf(summary.orderRevenue, totalRevenue)),
          RevenueBySource("Markets", summary.marketRevenue,
                          percentOf(summary.marketRevenue, totalRevenue)),
          RevenueBySource("Courses", summary.courseRevenue,
                          percentOf(summary.courseRevenue, totalRevenue))>>

\* The width of a bar of the breakdown:
\* totalRevenue > 0 ? (amount / totalRevenue) * 100 : 0
barWidth(amount, totalRevenue) ==
    IF totalRevenue > 0 THEN percentOf(amount, totalRevenue) ELSE Q(0, 1)

\* The three bars DashboardPage renders from revenueSummary.
revenueBreakdown(revenueSummary) ==
    <<RevenueBySource("Orders", revenueSummary.orderRevenue,
                      barWidth(revenueSummary.orderRevenue, revenueSummary.totalRevenue)),
      RevenueBySource("Markets", revenueSummary.marketRevenue,
                      barWidth(revenueSummary.marketRevenue, revenueSummary.totalRevenue)),
      RevenueBySource("Courses", revenueSummary.courseRevenue,
                      barWidth(revenueSummary.courseRevenue, revenueSummary.totalRevenue))>>

----------------------------------------------------------------------------
(* Summary steps *)

\* The date windows asked for: none, the year 2024, January 2024.
Windows ==
    {<<NoDate, NoDate>>,
     <<Date(2024, 1, 1), Date(2024, 12, 31)>>,
     <<Date(2024, 1, 1), Date(2024, 1, 31)>>}

WindowResult(kind, dateFrom, dateTo, readFails, value) ==
    [kind |-> kind, year |-> 0, readFails |-> readFails, entries |-> value,
     dateFrom |-> dateFrom, dateTo |-> dateTo]

\* A market that closed with a loss: final_incoming is negative.
LossDates == {Date(2023, 12, 31), Date(2024, 1, 1)}
LossMarketRows == {Row("market", d, 0 - 55, 0, "none") : d \in LossDates}

RemoteInsertLoss ==
    /\ Len(table) < MaxRows
    /\ \E r \in LossMarketRows : table' = Append(table, r)
    /\ returned' = NoResult
    /\ UNCHANGED <<locale, tz>>
    /\ UNCHANGED edgeVars
    /\ UNCHANGED clientVars
    /\ UNCHANGED reportVars
    /\ UNCHANGED analyticsVars
    /\ UNCHANGED formVars
    /\ UNCHANGED viewVars
    /\ UNCHANGED statusVars
    /\ UNCHANGED navVars

FetchRevenueSummary ==
    /\ \E w \in Windows, readFails \in BOOLEAN :
         returned' = WindowResult("summary", w[1], w[2], readFails,
                                  fetchRevenueSummary(table, w[1], w[2], readFails))
    /\ UNCHANGED <<locale, tz, table>>
    /\ UNCHANGED edgeVars
    /\ UNCHANGED clientVars
    /\ UNCHANGED reportVars
    /\ UNCHANGED analyticsVars
    /\ UNCHANGED formVars
    /\ UNCHANGED viewVars
    /\ UNCHANGED statusVars
    /\ UNCHANGED navVars

FetchRevenueBySource ==
    /\ \E w \in Windows, readFails \in BOOLEAN :
         returned' = WindowResult("bySource", w[1], w[2], readFails,
                                  fetchRevenueBySource(table, w[1], w[2], readFails))
    /\ UNCHANGED <<locale, tz, table>>
    /\ UNCHANGED edgeVars
    /\ UNCHANGED clientVars
    /\ UNCHANGED reportVars
    /\ UNCHANGED analyticsVars
    /\ UNCHANGED formVars
    /\ UNCHANGED viewVars
    /\ UNCHANGED statusVars
    /\ UNCHANGED navVars

\* DashboardPage reads fetchRevenueSummary() without a window and renders
\* the breakdown from it.
DashboardBreakdown ==
    /\ \E readFails \in BOOLEAN :
         returned' = WindowResult("breakdown", NoDate, NoDate, readFails,
                                  revenueBreakdown(
                                      fetchRevenueSummary(table, NoDate, NoDate, readFails)))
    /\ UNCHANGED <<locale, tz, table>>
    /\ UNCHANGED edgeVars
    /\ UNCHANGED clientVars
    /\ UNCHANGED reportVars
    /\ UNCHANGED analyticsVars
    /\ UNCHANGED formVars
    /\ UNCHANGED viewVars
    /\ UNCHANGED statusVars
    /\ UNCHANGED navVars

SummaryInit ==
    /\ AggStart
    /\ mwVariant = "mw1"
    /\ EdgeStart
    /\ apVariant = "ap1"
    /\ pathname = RootPath
    /\ providerSession = NoSession
    /\ ClientStart
    /\ ReportStart
    /\ AnalyticsStart
    /\ NavStart
    /\ StatusStart
    /\ ViewStart
    /\ FormStart

SummaryNext ==
    \/ RemoteInsert
    \/ RemoteInsertLoss
    \/ FetchRevenueSummary
    \/ FetchRevenueBySource
    \/ DashboardBreakdown

SummarySpec == SummaryInit /\ [][SummaryNext]_vars

----------------------------------------------------------------------------
(* Month over month: fetchMonthOverMonthRevenue and the expense change of
   DashboardPage *)

\* new Date(): the days on which the dashboard is opened.
Todays == {Date(2024, 1, 15), Date(2024, 3, 20)}

isLeap(y) == (y % 4 = 0 /\ y % 100 # 0) \/ y % 400 = 0

daysIn(y, m) ==
    IF m = 2 THEN (IF isLeap(y) THEN 29 ELSE 28)
    ELSE IF m \in {4, 6, 9, 11} THEN 30 ELSE 31

\* new Date(year, month, 1) and new Date(year, month + 1, 0) of the month
\* of today; startOfMonth and endOfMonth of date-fns give the same days.
monthStart(today) == Date(today.y, today.m, 1)
monthEnd(today) == Date(today.y, today.m, daysIn(today.y, today.m))

\* new Date(year, month - 1, 1): month -1 is December of the year before.
subMonth(today) ==
    IF today.m = 1 THEN Date(today.y - 1, 12, 1) ELSE Date(today.y, today.m - 1, 1)

\* The zones of the browser that opens the dashboard: UTC and one ahead of
\* it (a zone behind UTC gives the days of UTC here).
DashboardZones == {"utc", "ahead"}

dayBefore(date) ==
    IF date.d > 1 THEN Date(date.y, date.m, date.d - 1)
    ELSE IF date.m > 1 THEN Date(date.y, date.m - 1, daysIn(date.y, date.m - 1))
    ELSE Date(date.y - 1, 12, 31)

\* date.toISOString().split("T")[0] is the UTC day of a local midnight: the
\* local day itself at UTC, the day before in a zone ahead of UTC.
formatDate(date, zone) == IF zone = "ahead" THEN dayBefore(date) ELSE date

\* A slip: the test of the previous month left out, so that the division
\* is made whatever the previous month was.
percentChangeUnguarded(current, previous) ==
    qmul(qdiv(Q(current - previous, 1), Q(previous, 1)), Q(100, 1))

\* previous > 0 ? ((current - previous) / previous) * 100 : 0
percentChange(current, previous) ==
    IF previous > 0
    THEN qmul(qdiv(Q(current - previous, 1), Q(previous, 1)), Q(100, 1))
    ELSE Q(0, 1)

MonthOverMonth(current, previous, change) ==
    [current |-> current, previous |-> previous, percentChange |-> change]

\* The two summaries are read in parallel and each read fails on its own;
\* fetchRevenueSummary never rejects, so the catch block is not reached.
fetchMonthOverMonthRevenue(tbl, today, zone, currentFails, previousFails) ==
    LET currentMonthSummary ==
            fetchRevenueSummary(tbl, formatDate(monthStart(today), zone),
                                formatDate(monthEnd(today), zone), currentFails)
        previousMonthSummary ==
            fetchRevenueSummary(tbl, formatDate(monthStart(subMonth(today)), zone),
                                formatDate(monthEnd(subMonth(today)), zone), previousFails)
    IN  MonthOverMonth(currentMonthSummary.totalRevenue,
                       previousMonthSummary.totalRevenue,
                       percentChange(currentMonthSummary.totalRevenue,
                                     previousMonthSummary.totalRevenue))

RECURSIVE sumExpenses(_)
sumExpenses(rows) ==
    IF rows = << >> THEN 0 ELSE Head(rows).amount + sumExpenses(Tail(rows))

\* data.reduce((sum, expense) => sum + (expense.amount || 0), 0); 0 when
\* the read fails or returns nothing.
fetchTotalExpenses(tbl, dateFrom, dateTo, readFails) ==
    IF readFails THEN 0 ELSE sumExpenses(select(tbl, "expense", dateFrom, dateTo))

\* lastMonthTotal > 0 ? ((currentMonthTotal - lastMonthTotal) / lastMonthTotal) * 100 : 0
expenseMonthOverMonthChange(currentMonthTotal, lastMonthTotal) ==
    percentChange(currentMonthTotal, lastMonthTotal)

\* The amount field of the expense form is a number input without a
\* minimum: a refund is entered as a negative amount.
CreditRows == {Row("expense", d, 0 - 30, 0, "none") : d \in LossDates}

insertCredit ==
    /\ Len(table) < MaxRows
    /\ \E r \in CreditRows : table' = Append(table, r)
    /\ returned' = NoResult
    /\ UNCHANGED <<locale, tz>>
    /\ UNCHANGED edgeVars
    /\ UNCHANGED clientVars
    /\ UNCHANGED reportVars
    /\ UNCHANGED analyticsVars
    /\ UNCHANGED formVars
    /\ UNCHANGED viewVars
    /\ UNCHANGED statusVars
    /\ UNCHANGED navVars

FetchMonthOverMonthRevenue ==
    /\ \E today \in Todays, currentFails, previousFails \in BOOLEAN :
         returned' = WindowResult("monthOverMonth", monthStart(today), monthEnd(today),
                                  currentFails \/ previousFails,
                                  fetchMonthOverMonthRevenue(table, today, tz,
                                                             currentFails, previousFails))
    /\ UNCHANGED <<locale, tz, table>>
    /\ UNCHANGED edgeVars
    /\ UNCHANGED clientVars
    /\ UNCHANGED reportVars
    /\ UNCHANGED analyticsVars
    /\ UNCHANGED formVars
    /\ UNCHANGED viewVars
    /\ UNCHANGED statusVars
    /\ UNCHANGED navVars

\* The part of DashboardPage.loadData that reads the totals of the last and
\* of the current month, with the change rendered from them.
DashboardExpenseChange ==
    /\ \E today \in Todays, currentFails, lastFails \in BOOLEAN :
         LET lastMonthTotal ==
                 fetchTotalExpenses(table, monthStart(subMonth(today)),
                                    monthEnd(subMonth(today)), lastFails)
             currentMonthTotal ==
                 fetchTotalExpenses(table, monthStart(today), monthEnd(today),
                                    currentFails)
         IN  returned' = WindowResult("expenseChange", monthStart(today), monthEnd(today),
                                      currentFails \/ lastFails,
                                      MonthOverMonth(currentMonthTotal, lastMonthTotal,
                                                     expenseMonthOverMonthChange(
                                                         currentMonthTotal, lastMonthTotal)))
    /\ UNCHANGED <<locale, tz, table>>
    /\ UNCHANGED edgeVars
    /\ UNCHANGED clientVars
    /\ UNCHANGED reportVars
    /\ UNCHANGED analyticsVars
    /\ UNCHANGED formVars
    /\ UNCHANGED viewVars
    /\ UNCHANGED statusVars
    /\ UNCHANGED navVars

ChangeInit ==
    /\ locale = "en-US"
    /\ tz \in DashboardZones
    /\ table = << >>
    /\ returned = NoResult
    /\ mwVariant = "mw1"
    /\ EdgeStart
    /\ apVariant = "ap1"
    /\ pathname = RootPath
    /\ providerSession = NoSession
    /\ ClientStart
    /\ ReportStart
    /\ AnalyticsStart
    /\ NavStart
    /\ StatusStart
    /\ ViewStart
    /\ FormStart

ChangeNext ==
    \/ RemoteInsert
    \/ RemoteInsertLoss
    \/ insertExpense
    \/ insertCredit
    \/ FetchMonthOverMonthRevenue
    \/ DashboardExpenseChange

ChangeSpec == ChangeInit /\ [][ChangeNext]_vars

----------------------------------------------------------------------------
(* AnalyticsPage: combineData and generateForecast *)

monthOrder == months

\* The keys of an object in the order of their insertion.
RECURSIVE insertionOrder(_)
insertionOrder(keys) ==
    IF keys = << >>
    THEN << >>
    ELSE LET before == insertionOrder(SubSeq(keys, 1, Len(keys) - 1))
             last == keys[Len(keys)]
         IN  IF \E i \in DOMAIN before : before[i] = last
             THEN before
             ELSE Append(before, last)

\* combined[month] after the two forEach loops: revenue is the value of the
\* last revenue item of the month, expenses that of the last expense item,
\* and profit is assigned in the loop over the expenses only.
combinedRow(revenueData, expenseData, month) ==
    LET revenue == IF month \in labels(revenueData)
                   THEN revenueByMonth(revenueData, month)
                   ELSE Q(0, 1)
    IN  IF month \in labels(expenseData)
        THEN [month |-> month,
              revenue |-> revenue,
              expenses |-> expensesByMonth(expenseData, month),
              profit |-> qsub(revenue, expensesByMonth(expenseData, month))]
        ELSE [month |-> month, revenue |-> revenue, expenses |-> Q(0, 1),
              profit |-> Q(0, 1)]

\* Object.values(combined).sort((a, b) => indexOf(a.month) - indexOf(b.month)):
\* the sort is stable and indexOf is -1 for a label monthOrder does not hold.
combineData(revenueData, expenseData) ==
    LET keys == insertionOrder([i \in DOMAIN revenueData |-> revenueData[i].month]
                               \o [i \in DOMAIN expenseData |-> expenseData[i].month])
        known == {monthOrder[i] : i \in DOMAIN monthOrder}
        sorted == SelectSeq(keys, LAMBDA m : m \notin known)
                  \o SelectSeq(monthOrder,
                               LAMBDA m : \E i \in DOMAIN keys : keys[i] = m)
    IN  [i \in DOMAIN sorted |-> combinedRow(revenueData, expenseData, sorted[i])]

\* historicalData.slice(-3)
lastThree(historicalData) ==
    SubSeq(historicalData,
           IF Len(historicalData) > 3 THEN Len(historicalData) - 2 ELSE 1,
           Len(historicalData))

\* The loop over lastThreeMonths: the sum of (v[i] - v[i-1]) / v[i-1] for
\* i from 1 to upTo, counted from 0.
RECURSIVE sumGrowth(_, _)
sumGrowth(values, upTo) ==
    IF upTo < 2
    THEN Q(0, 1)
    ELSE qadd(sumGrowth(values, upTo - 1),
              qdiv(qsub(values[upTo], values[upTo - 1]), values[upTo - 1]))

\* The average growth before it is clamped; 0 with fewer than two points.
avgGrowth(values) ==
    IF Len(values) >= 2
    THEN qdiv(sumGrowth(values, Len(values)), Q(Len(values) - 1, 1))
    ELSE Q(0, 1)

\* Math.max(-0.2, Math.min(0.2, rate))
clamp(rate) == MathMax(Q(0 - 1, 5), MathMin(Q(1, 5), rate))

avgRevenueGrowth(historicalData) ==
    LET l == lastThree(historicalData)
    IN  clamp(avgGrowth([i \in DOMAIN l |-> l[i].revenue]))

avgExpenseGrowth(historicalData) ==
    LET l == lastThree(historicalData)
    IN  clamp(avgGrowth([i \in DOMAIN l |-> l[i].expenses]))

\* Math.pow(base, i) for i = 0, 1, 2, ...
RECURSIVE MathPow(_, _)
MathPow(base, i) == IF i = 0 THEN Q(1, 1) ELSE qmul(base, MathPow(base, i - 1))

\* format(addMonths(new Date(`${month} 1, ${year}`), i), "MMM") for a label
\* of months; the year is passed over after December.
monthAfter(month, i) ==
    LET at == CHOOSE k \in DOMAIN months : months[k] = month
    IN  months[((at - 1 + i) % 12) + 1]

forecastRow(lastMonth, revenueGrowth, expenseGrowth, i) ==
    LET forecastRevenue ==
            qmul(lastMonth.revenue, MathPow(qadd(Q(1, 1), revenueGrowth), i))
        forecastExpenses ==
            qmul(lastMonth.expenses, MathPow(qadd(Q(1, 1), expenseGrowth), i))
    IN  [month |-> monthAfter(lastMonth.month, i),
         revenue |-> forecastRevenue,
         expenses |-> forecastExpenses,
         profit |-> qsub(forecastRevenue, forecastExpenses),
         isForecast |-> TRUE]

\* A slip: the loop stops one period early.
generateForecastFivePeriods(historicalData) ==
    IF historicalData = << >>
    THEN << >>
    ELSE [i \in 1..5 |->
            forecastRow(historicalData[Len(historicalData)],
                        avgRevenueGrowth(historicalData),
                        avgExpenseGrowth(historicalData), i)]

generateForecast(historicalData) ==
    IF historicalData = << >>
    THEN << >>
    ELSE [i \in 1..6 |->
            forecastRow(historicalData[Len(historicalData)],
                        avgRevenueGrowth(historicalData),
                        avgExpenseGrowth(historicalData), i)]

\* What is handed over to combineData: the totals of the first months of
\* the year, one item a month. The fetches of the page hand over all twelve
\* months or, after a failed read, none; the shorter lists are the short
\* histories generateForecast provides for.
asRevenue(totals) ==
    [i \in DOMAIN totals |-> [month |-> months[i], totalRevenue |-> Q(totals[i], 1)]]

asExpenses(totals) ==
    [i \in DOMAIN totals |-> [month |-> months[i], total |-> Q(totals[i], 1)]]

\* A year with business until September and nothing after it.
untilSeptember(total) == [i \in 1..12 |-> IF i <= 9 THEN total ELSE 0]

RevenueTotals ==
    {<< >>, <<125>>, <<0>>,
     <<125, 250>>, <<250, 125>>, <<125, 150>>, <<125, 125>>, <<0, 125>>,
     <<125, 0>>, <<0, 0>>,
     <<125, 0, 0>>, <<125, 250, 250>>, <<125, 250, 125>>,
     <<0, 125, 125, 125>>, <<125, 125, 0, 0>>,
     untilSeptember(125), [i \in 1..12 |-> 125]}

ExpenseTotals ==
    {<< >>, <<25>>,
     <<25, 50>>, <<50, 25>>, <<125, 100>>, <<25, 25>>, <<25, 0>>, <<0, 0>>,
     <<25, 0, 0>>, <<0, 25, 25, 25>>,
     untilSeptember(25)}

\* Growth inside the range: ten per cent up, ten per cent down.
SteadyInputs ==
    {<<asRevenue(<<100, 110>>), asExpenses(<<40, 40>>)>>,
     <<asRevenue(<<100, 100>>), asExpenses(<<40, 36>>)>>}

AnalyticsInputs ==
    {<<asRevenue(r), asExpenses(e)>> : r \in RevenueTotals, e \in ExpenseTotals}
    \cup SteadyInputs

\* loadData of AnalyticsPage once the fetches have resolved: the rows are
\* combined and stored, and stored again with the forecast after them.
AnalyticsLoadData ==
    /\ \E input \in AnalyticsInputs :
         LET combined == combineData(input[1], input[2])
         IN  /\ combinedData' = combined
             /\ forecastData' = combined \o generateForecast(combined)
    /\ UNCHANGED edgeVars
    /\ UNCHANGED clientVars
    /\ UNCHANGED aggVars
    /\ UNCHANGED reportVars
    /\ UNCHANGED formVars
    /\ UNCHANGED viewVars
    /\ UNCHANGED statusVars
    /\ UNCHANGED navVars

AnalyticsInit ==
    /\ AnalyticsStart
    /\ NavStart
    /\ StatusStart
    /\ ViewStart
    /\ FormStart
    /\ mwVariant = "mw1"
    /\ EdgeStart
    /\ apVariant = "ap1"
    /\ pathname = RootPath
    /\ providerSession = NoSession
    /\ ClientStart
    /\ AggStart
    /\ ReportStart

AnalyticsNext == AnalyticsLoadData

AnalyticsSpec == AnalyticsInit /\ [][AnalyticsNext]_vars

----------------------------------------------------------------------------
(* Sums of amounts that have a fractional part.  An amount is a double: a
   significand of at most 53 bits, kept odd and written lowest bit first,
   times a power of two; +0 has no bits.  Only amounts that are not
   negative occur, and exponents stay far from the limits of the format. *)

Double(bits, exponent) == [m |-> bits, e |-> exponent]

DoubleZero == Double(<< >>, 0)

\* The bits of a significand written in hexadecimal, highest digit first.
RECURSIVE hexBits(_)
hexBits(digits) ==
    IF digits = << >>
    THEN << >>
    ELSE LET h == digits[Len(digits)]
         IN  <<h % 2, (h \div 2) % 2, (h \div 4) % 2, (h \div 8) % 2>>
             \o hexBits(SubSeq(digits, 1, Len(digits) - 1))

\* Zero bits above the highest one are dropped.
RECURSIVE dropHigh(_)
dropHigh(bits) ==
    IF bits = << >> \/ bits[Len(bits)] = 1
    THEN bits
    ELSE dropHigh(SubSeq(bits, 1, Len(bits) - 1))

\* Zero bits below the lowest one go into the exponent.
RECURSIVE normalize(_, _)
normalize(bits, exponent) ==
    IF bits = << >> THEN DoubleZero
    ELSE IF Head(bits) = 1 THEN Double(bits, exponent)
    ELSE normalize(Tail(bits), exponent + 1)

shiftLeft(bits, k) == [i \in 1..k |-> 0] \o bits

\* a + b + carry of two significands of the same exponent, exactly.
RECURSIVE addBits(_, _, _)
addBits(a, b, carry) ==
    IF a = << >> /\ b = << >>
    THEN (IF carry = 1 THEN <<1>> ELSE << >>)
    ELSE LET x == IF a = << >> THEN 0 ELSE Head(a)
             y == IF b = << >> THEN 0 ELSE Head(b)
             s == x + y + carry
         IN  <<s % 2>> \o addBits(IF a = << >> THEN a ELSE Tail(a),
                                  IF b = << >> THEN b ELSE Tail(b),
                                  s \div 2)

\* The exact value bits * 2^exponent rounded to 53 bits, to the nearest and
\* to the even one of two that are equally near.
roundToDouble(bits, exponent) ==
    IF Len(bits) <= 53
    THEN normalize(bits, exponent)
    ELSE LET k == Len(bits) - 53
             kept == SubSeq(bits, k + 1, Len(bits))
             half == bits[k] = 1
             more == \E i \in 1..(k - 1) : bits[i] = 1
             up == half /\ (more \/ kept[1] = 1)
         IN  normalize(IF up THEN addBits(kept, << >>, 1) ELSE kept, exponent + k)

\* x + y of two doubles
plusDouble(x, y) ==
    IF x.m = << >> THEN y
    ELSE IF y.m = << >> THEN x
    ELSE LET e == IF x.e < y.e THEN x.e ELSE y.e
         IN  roundToDouble(dropHigh(addBits(shiftLeft(x.m, x.e - e),
                                            shiftLeft(y.m, y.e - e), 0)), e)

\* The doubles that 0.1, 0.2 and 0.3 are read as.
Tenth == normalize(dropHigh(hexBits(<<1, 9, 9, 9, 9, 9, 9, 9, 9, 9, 9, 9, 9, 10>>)), 0 - 56)
TwoTenths == normalize(dropHigh(hexBits(<<1, 9, 9, 9, 9, 9, 9, 9, 9, 9, 9, 9, 9, 10>>)), 0 - 55)
ThreeTenths == normalize(dropHigh(hexBits(<<1, 3, 3, 3, 3, 3, 3, 3, 3, 3, 3, 3, 3, 3>>)), 0 - 54)

----------------------------------------------------------------------------
(* The market revenue of fetchRevenueSummary and of fetchRevenueByMonth over
   markets whose final_incoming has a fractional part; the tables of orders
   and of courses are empty *)

MaxFractionRows == 3

FractionDates == {Date(2024, 1, 1), Date(2024, 1, 2)}

FractionRows ==
    {Row("market", d, a, 0, "none") :
        d \in FractionDates, a \in {Tenth, TwoTenths, ThreeTenths}}

\* markets.reduce((sum, market) => sum + (market.final_incoming || 0), 0)
RECURSIVE reduceMarkets(_)
reduceMarkets(markets) ==
    IF markets = << >>
    THEN DoubleZero
    ELSE plusDouble(reduceMarkets(SubSeq(markets, 1, Len(markets) - 1)),
                    markets[Len(markets)].amount)

\* fetchRevenueSummary with no order and no course: both reduce to 0.
marketRevenueSummary(tbl, dateFrom, dateTo, readFails) ==
    LET markets == fetchMarkets(tbl, dateFrom, dateTo, readFails)
        orderRevenue == DoubleZero
        marketRevenue == reduceMarkets(markets)
        courseRevenue == DoubleZero
    IN  [totalRevenue |-> plusDouble(plusDouble(orderRevenue, marketRevenue),
                                     courseRevenue),
         orderRevenue |-> orderRevenue,
         marketRevenue |-> marketRevenue,
         courseRevenue |-> courseRevenue,
         orderCount |-> 0,
         marketCount |-> Len(markets),
         courseCount |-> 0]

\* fetchRevenueByMonth with no order and no course: the markets are added
\* to the month of their label one after the other, so that the total of a
\* month is the sum of its markets in the order they were read.
marketRevenueByMonth(tbl, year, readFails, loc, zone) ==
    LET markets == fetchMarkets(tbl, startDate(year), endDate(year), readFails)
    IN  IF \E i \in DOMAIN markets : ~hasKey(monthlyData0, monthShort(markets[i].date, loc, zone))
        THEN << >>
        ELSE [i \in 1..12 |->
                LET ofMonth == SelectSeq(markets,
                                   LAMBDA r : monthShort(r.date, loc, zone) = months[i])
                IN  [month |-> months[i],
                     orderRevenue |-> DoubleZero,
                     marketRevenue |-> reduceMarkets(ofMonth),
                     courseRevenue |-> DoubleZero,
                     totalRevenue |-> reduceMarkets(ofMonth)]]

RemoteInsertFraction ==
    /\ Len(table) < MaxFractionRows
    /\ \E r \in FractionRows : table' = Append(table, r)
    /\ returned' = NoResult
    /\ UNCHANGED <<locale, tz>>
    /\ UNCHANGED edgeVars
    /\ UNCHANGED clientVars
    /\ UNCHANGED reportVars
    /\ UNCHANGED analyticsVars
    /\ UNCHANGED formVars
    /\ UNCHANGED viewVars
    /\ UNCHANGED statusVars
    /\ UNCHANGED navVars

FetchMarketRevenueSummary ==
    /\ \E readFails \in BOOLEAN :
         returned' = WindowResult("marketSummary", NoDate, NoDate, readFails,
                                  marketRevenueSummary(table, NoDate, NoDate, readFails))
    /\ UNCHANGED <<locale, tz, table>>
    /\ UNCHANGED edgeVars
    /\ UNCHANGED clientVars
    /\ UNCHANGED reportVars
    /\ UNCHANGED analyticsVars
    /\ UNCHANGED formVars
    /\ UNCHANGED viewVars
    /\ UNCHANGED statusVars
    /\ UNCHANGED navVars

FetchMarketRevenueByMonth ==
    /\ \E readFails \in BOOLEAN :
         returned' = Result("marketsByMonth", 2024, readFails,
                            marketRevenueByMonth(table, 2024, readFails, locale, tz))
    /\ UNCHANGED <<locale, tz, table>>
    /\ UNCHANGED edgeVars
    /\ UNCHANGED clientVars
    /\ UNCHANGED reportVars
    /\ UNCHANGED analyticsVars
    /\ UNCHANGED formVars
    /\ UNCHANGED viewVars
    /\ UNCHANGED statusVars
    /\ UNCHANGED navVars

FractionNext ==
    \/ RemoteInsertFraction
    \/ FetchMarketRevenueSummary
    \/ FetchMarketRevenueByMonth

FractionSpec == SummaryInit /\ [][FractionNext]_vars

----------------------------------------------------------------------------
(* The read functions called on their own: how the promise of a call settles
   when the remote read answers and when it fails *)

Resolved(value) == [settled |-> "resolved", value |-> value]
Rejected(error) == [settled |-> "rejected", value |-> error]

ReadError == "error"

Profile(id) == [id |-> id]
UserIds == {"u1", "u2"}

\* The ids of the users that have a row in the table of profiles.
ProfileIds == {"u1"}

\* fetchProfile: .single() answers with an error unless exactly one row has
\* the id, and the catch block throws the error again.
fetchProfile(userId, readFails) ==
    IF readFails \/ userId \notin ProfileIds
    THEN Rejected(ReadError)
    ELSE Resolved(Profile(userId))

Categories == <<[id |-> 1, name |-> "Food"], [id |-> 2, name |-> "Travel"]>>

\* fetchCategories: [] after an error.
fetchCategories(readFails) ==
    IF readFails THEN Resolved(<< >>) ELSE Resolved(Categories)

\* The expenses of 30 are of the first category and the others of the second.
categoryId(expense) == IF expense.amount = 30 THEN 1 ELSE 2

RECURSIVE categoryTotal(_, _)
categoryTotal(data, id) ==
    IF data = << >> THEN 0
    ELSE (IF categoryId(Head(data)) = id THEN Head(data).amount ELSE 0)
         + categoryTotal(Tail(data), id)

\* fetchExpensesByCategory: the totals by category_id; Object.values lists
\* integer keys in ascending order.  [] after an error and for no row.
fetchExpensesByCategory(tbl, readFails) ==
    IF readFails
    THEN Resolved(<< >>)
    ELSE LET data == select(tbl, "expense", NoDate, NoDate)
             present == SelectSeq(Categories,
                            LAMBDA c : \E i \in DOMAIN data : categoryId(data[i]) = c.id)
         IN  Resolved([i \in DOMAIN present |->
                          [category_id |-> present[i].id,
                           category_name |-> present[i].name,
                           total |-> categoryTotal(data, present[i].id)]])

ReadFunctions ==
    {"fetchOrders", "fetchMarkets", "fetchCourses", "fetchExpenses",
     "fetchCategories", "fetchExpensesByCategory", "fetchMonthlyExpenses",
     "fetchProfile", "fetchTotalExpenses", "fetchRevenueSummary"}

\* What a call left behind: the function, whether its remote read failed
\* and how its promise settled.
CallResult(fn, readFails, outcome) ==
    [kind |-> fn, year |-> 0, readFails |-> readFails,
     settled |-> outcome.settled, entries |-> outcome.value]

Returns(fn, readFails, outcome) ==
    /\ returned' = CallResult(fn, readFails, outcome)
    /\ UNCHANGED <<locale, tz, table>>
    /\ UNCHANGED edgeVars
    /\ UNCHANGED clientVars
    /\ UNCHANGED reportVars
    /\ UNCHANGED analyticsVars
    /\ UNCHANGED formVars
    /\ UNCHANGED viewVars
    /\ UNCHANGED statusVars
    /\ UNCHANGED navVars

CallFetchOrders ==
    \E readFails \in BOOLEAN :
        Returns("fetchOrders", readFails,
                Resolved(fetchOrders(table, NoDate, NoDate, readFails)))

CallFetchMarkets ==
    \E readFails \in BOOLEAN :
        Returns("fetchMarkets", readFails,
                Resolved(fetchMarkets(table, NoDate, NoDate, readFails)))

CallFetchCourses ==
    \E readFails \in BOOLEAN :
        Returns("fetchCourses", readFails,
                Resolved(fetchCourses(table, NoDate, NoDate, readFails)))

CallFetchExpenses ==
    \E readFails \in BOOLEAN :
        Returns("fetchExpenses", readFails,
                Resolved(fetchExpenses(table, NoDate, NoDate, readFails)))

CallFetchCategories ==
    \E readFails \in BOOLEAN :
        Returns("fetchCategories", readFails, fetchCategories(readFails))

CallFetchExpensesByCategory ==
    \E readFails \in BOOLEAN :
        Returns("fetchExpensesByCategory", readFails,
                fetchExpensesByCategory(table, readFails))

CallFetchMonthlyExpenses ==
    \E readFails \in BOOLEAN, year \in Years :
        Returns("fetchMonthlyExpenses", readFails,
                Resolved(fetchMonthlyExpenses(table, year, readFails, locale, tz)))

CallFetchProfile ==
    \E readFails \in BOOLEAN, userId \in UserIds :
        Returns("fetchProfile", readFails, fetchProfile(userId, readFails))

CallFetchTotalExpenses ==
    \E readFails \in BOOLEAN :
        Returns("fetchTotalExpenses", readFails,
                Resolved(fetchTotalExpenses(table, NoDate, NoDate, readFails)))

CallFetchRevenueSummary ==
    \E readFails \in BOOLEAN :
        Returns("fetchRevenueSummary", readFails,
                Resolved(fetchRevenueSummary(table, NoDate, NoDate, readFails)))

ReadNext ==
    \/ RemoteInsert
    \/ insertExpense
    \/ CallFetchOrders
    \/ CallFetchMarkets
    \/ CallFetchCourses
    \/ CallFetchExpenses
    \/ CallFetchCategories
    \/ CallFetchExpensesByCategory
    \/ CallFetchMonthlyExpenses
    \/ CallFetchProfile
    \/ CallFetchTotalExpenses
    \/ CallFetchRevenueSummary

ReadSpec == SummaryInit /\ [][ReadNext]_vars

----------------------------------------------------------------------------
(* The write functions and the submission of ExpenseForm *)

NoMessage == "null"
RequiredMessage == "Please fill in all required fields"
FailedMessage == "Failed to add expense"
SuccessMessage == "Expense added successfully"

\* Redirect timers of the form that may be pending at once.
MaxTimers == 1

\* format(new Date(), "yyyy-MM-dd") on the day the form is open.
FormToday == "2024-01-15"

\* What the user may type into a field.
FieldValues ==
    [description |-> {"", "rent"},
     amount |-> {"", "30"},
     date |-> {"", FormToday},
     categoryId |-> {"", "1"},
     note |-> {"", "paid"}]

FieldNames == DOMAIN FieldValues

\* Number.parseFloat and Number.parseInt of the texts of the fields.
parseFloat(text) == IF text = "30" THEN 30 ELSE 0
parseInt(text) == IF text = "1" THEN 1 ELSE 0

\* new Date(text) of the text of the date field.
dateOf(text) == IF text = FormToday THEN Date(2024, 1, 15) ELSE NoDate

\* The object handleSubmit passes to insertExpense.
expenseOf(f) ==
    [description |-> f.description,
     amount |-> parseFloat(f.amount),
     date |-> f.date,
     category_id |-> parseInt(f.categoryId),
     note |-> IF f.note = "" THEN "undefined" ELSE f.note]

\* handleSubmit up to the call of insertExpense: the required fields are
\* tested, then loading is set and both messages are cleared.
handleSubmit(f) ==
    IF f.description = "" \/ f.amount = "" \/ f.date = "" \/ f.categoryId = ""
    THEN [form |-> [f EXCEPT !.error = RequiredMessage], calls |-> FALSE]
    ELSE [form |-> [f EXCEPT !.loading = TRUE, !.error = NoMessage,
                             !.success = NoMessage],
          calls |-> TRUE]

\* A slip: the fields are reset in the finally block, whatever the outcome.
handleSubmitSettledClears(f, settled) ==
    [form |-> [f EXCEPT !.description = "", !.amount = "", !.date = FormToday,
                        !.categoryId = "", !.note = "", !.loading = FALSE,
                        !.success = IF settled = "resolved" THEN SuccessMessage ELSE @,
                        !.error = IF settled = "resolved" THEN @ ELSE FailedMessage],
     timer |-> settled = "resolved"]

\* handleSubmit after the await: the success message, the reset of the
\* fields and the redirect timer when insertExpense resolved, the error
\* message when it threw, and loading cleared in both cases.
handleSubmitSettled(f, settled) ==
    IF settled = "resolved"
    THEN [form |-> [f EXCEPT !.success = SuccessMessage,
                             !.description = "", !.amount = "", !.date = FormToday,
                             !.categoryId = "", !.note = "", !.loading = FALSE],
          timer |-> TRUE]
    ELSE [form |-> [f EXCEPT !.error = FailedMessage, !.loading = FALSE],
          timer |-> FALSE]

\* insertExpense, updateExpense, deleteExpense: an error of the remote write
\* is thrown, logged in the catch block and thrown again.
writeSettles(writeFails) == IF writeFails THEN "rejected" ELSE "resolved"

Write(fn, writeFails) ==
    [fn |-> fn, writeFails |-> writeFails, settled |-> writeSettles(writeFails)]

\* The row of the table of expenses that an inserted expense becomes.
rowOf(expense) == Row("expense", dateOf(expense.date), expense.amount, 0, "none")

\* .update(expense).eq("id", id): the id of a row is its place in the table.
updated(tbl, id, amount) ==
    [i \in DOMAIN tbl |->
        IF i = id /\ tbl[i].source = "expense"
        THEN [tbl[i] EXCEPT !.amount = amount]
        ELSE tbl[i]]

\* .delete().eq("id", id)
deleted(tbl, id) ==
    IF id \in DOMAIN tbl /\ tbl[id].source = "expense"
    THEN SubSeq(tbl, 1, id - 1) \o SubSeq(tbl, id + 1, Len(tbl))
    ELSE tbl

\* onChange of a field.
EditField ==
    /\ ~navigated
    /\ \E name \in FieldNames : \E value \in FieldValues[name] :
         form' = [form EXCEPT ![name] = value]
    /\ UNCHANGED <<pendingInsert, lastWrite, timers, navigated>>
    /\ UNCHANGED edgeVars
    /\ UNCHANGED clientVars
    /\ UNCHANGED aggVars
    /\ UNCHANGED reportVars
    /\ UNCHANGED analyticsVars
    /\ UNCHANGED viewVars
    /\ UNCHANGED statusVars
    /\ UNCHANGED navVars

\* The form is submitted; the button is disabled while loading is set.
Submit ==
    /\ ~navigated
    /\ ~form.loading
    /\ Len(table) < MaxRows
    /\ timers < MaxTimers
    /\ form' = handleSubmit(form).form
    /\ pendingInsert' = IF handleSubmit(form).calls
                        THEN [inFlight |-> TRUE, expense |-> expenseOf(form)]
                        ELSE pendingInsert
    /\ UNCHANGED <<lastWrite, timers, navigated>>
    /\ UNCHANGED edgeVars
    /\ UNCHANGED clientVars
    /\ UNCHANGED aggVars
    /\ UNCHANGED reportVars
    /\ UNCHANGED analyticsVars
    /\ UNCHANGED viewVars
    /\ UNCHANGED statusVars
    /\ UNCHANGED navVars

\* The insertExpense call of the form settles and handleSubmit goes on; a
\* form that was left in the meantime has no state to set.
InsertSettles ==
    /\ pendingInsert.inFlight
    /\ \E writeFails \in BOOLEAN :
         LET settled == writeSettles(writeFails)
             next == handleSubmitSettled(form, settled)
         IN  /\ lastWrite' = Write("insertExpense", writeFails)
             /\ table' = IF writeFails THEN table
                         ELSE Append(table, rowOf(pendingInsert.expense))
             /\ form' = IF navigated THEN form ELSE next.form
             /\ timers' = IF next.timer /\ ~navigated THEN timers + 1 ELSE timers
    /\ pendingInsert' = [inFlight |-> FALSE, expense |-> << >>]
    /\ returned' = NoResult
    /\ UNCHANGED <<locale, tz, navigated>>
    /\ UNCHANGED edgeVars
    /\ UNCHANGED clientVars
    /\ UNCHANGED reportVars
    /\ UNCHANGED analyticsVars
    /\ UNCHANGED viewVars
    /\ UNCHANGED statusVars
    /\ UNCHANGED navVars

\* setTimeout(..., 1500): router.push("/dashboard/expenses").
RedirectTimer ==
    /\ timers > 0
    /\ timers' = timers - 1
    /\ navigated' = TRUE
    /\ UNCHANGED <<form, pendingInsert, lastWrite>>
    /\ UNCHANGED edgeVars
    /\ UNCHANGED clientVars
    /\ UNCHANGED aggVars
    /\ UNCHANGED reportVars
    /\ UNCHANGED analyticsVars
    /\ UNCHANGED viewVars
    /\ UNCHANGED statusVars
    /\ UNCHANGED navVars

CallUpdateExpense ==
    /\ \E id \in 1..MaxRows, writeFails \in BOOLEAN :
         /\ lastWrite' = Write("updateExpense", writeFails)
         /\ table' = IF writeFails THEN table ELSE updated(table, id, 50)
    /\ returned' = NoResult
    /\ UNCHANGED <<locale, tz>>
    /\ UNCHANGED <<form, pendingInsert, timers, navigated>>
    /\ UNCHANGED edgeVars
    /\ UNCHANGED clientVars
    /\ UNCHANGED reportVars
    /\ UNCHANGED analyticsVars
    /\ UNCHANGED viewVars
    /\ UNCHANGED statusVars
    /\ UNCHANGED navVars

CallDeleteExpense ==
    /\ \E id \in 1..MaxRows, writeFails \in BOOLEAN :
         /\ lastWrite' = Write("deleteExpense", writeFails)
         /\ table' = IF writeFails THEN table ELSE deleted(table, id)
    /\ returned' = NoResult
    /\ UNCHANGED <<locale, tz>>
    /\ UNCHANGED <<form, pendingInsert, timers, navigated>>
    /\ UNCHANGED edgeVars
    /\ UNCHANGED clientVars
    /\ UNCHANGED reportVars
    /\ UNCHANGED analyticsVars
    /\ UNCHANGED viewVars
    /\ UNCHANGED statusVars
    /\ UNCHANGED navVars

FormNext ==
    \/ EditField
    \/ Submit
    \/ InsertSettles
    \/ RedirectTimer
    \/ CallUpdateExpense
    \/ CallDeleteExpense

FormSpec == SummaryInit /\ [][FormNext]_vars

----------------------------------------------------------------------------
(* The data-loading views *)

\* Navigations, context changes and calls in a behaviour.
MaxViewInputs == 3

\* Reads of the joins that have not gone on yet.
MaxPending == 9

Views == {"dashboard", "expenses", "revenue", "reports", "analytics"}

CredentialsMessage == "Supabase credentials are not configured properly"

\* The functions passed to Promise.all, in order, by the loadData of a view
\* and by a data-access function that joins calls of its own.
ViewReads ==
    [dashboard |-> <<"fetchExpenses", "fetchExpensesByCategory",
                     "fetchMonthlyExpenses", "fetchTotalExpenses",
                     "fetchTotalExpenses", "fetchTotalExpenses",
                     "fetchRevenueSummary", "fetchMonthOverMonthRevenue",
                     "fetchRecentRevenueTransactions">>,
     expenses |-> <<"fetchExpenses", "fetchCategories">>,
     revenue |-> <<"fetchOrders", "fetchMarkets", "fetchCourses">>,
     reports |-> <<"fetchRevenueByMonth", "fetchMonthlyExpenses">>,
     analytics |-> <<"fetchRevenueByMonth", "fetchMonthlyExpenses",
                     "fetchExpensesByCategory">>,
     fetchRevenueSummary |-> <<"fetchOrders", "fetchMarkets", "fetchCourses">>,
     fetchRevenueByMonth |-> <<"fetchOrders", "fetchMarkets", "fetchCourses">>]

\* The data-access functions that join calls of their own.
JoinedFetches == {"fetchRevenueSummary", "fetchRevenueByMonth"}

\* The views whose loadData tests the two environment variables first.
checksCredentials(view) == view \in {"dashboard", "expenses"}

configured(e) == e.url /\ e.anonKey

\* A view as it is constructed: useState(true) for loading.
Mounted(view) == [view |-> view, loading |-> TRUE, error |-> NoMessage, data |-> << >>]

Load(view) == [view |-> view, reads |-> ViewReads[view], resolved |-> {}]

RECURSIVE inFlight(_)
inFlight(lds) ==
    IF lds = << >> THEN 0
    ELSE Len(lds[1].reads) + inFlight(Tail(lds))

\* loadData up to the await: loading is set and the error cleared; a view
\* that tests the environment throws before any call when a variable is
\* missing, and the catch and finally blocks set the message and clear
\* loading; otherwise every function is called and the calls are joined.
loadData(view, e, pg, lds, fns) ==
    IF checksCredentials(view) /\ ~configured(e)
    THEN [page |-> [pg EXCEPT !.loading = FALSE, !.error = CredentialsMessage],
          loads |-> lds,
          called |-> fns]
    ELSE [page |-> [pg EXCEPT !.loading = TRUE, !.error = NoMessage],
          loads |-> Append(lds, Load(view)),
          called |-> fns \cup {ViewReads[view][i] : i \in DOMAIN ViewReads[view]}]

\* A slip: the load is started whether or not there is a user.
dashboardLoadsAlways(u) == TRUE

\* The effect of DashboardPage that loads: if (user) { loadData() }.
dashboardLoads(u) == u # NoUser

\* The auth check of DashboardPage: router.push("/auth") once the context
\* has loaded and holds no user.
dashboardAuthCheck(u, l) == ~l /\ u = NoUser

\* A slip: the continuation runs as soon as one call has resolved.
joinedAny(load) == load.resolved # {}

\* Promise.all: the continuation runs when every call has resolved.
joined(load) == load.resolved = DOMAIN load.reads

\* The results the continuation of a load holds: one per call that resolved.
results(load) == [i \in 1..Cardinality(load.resolved) |->
                    load.reads[CHOOSE k \in load.resolved :
                                 Cardinality({j \in load.resolved : j < k}) = i - 1]]

without(lds, i) == SubSeq(lds, 1, i - 1) \o SubSeq(lds, i + 1, Len(lds))

\* The effects of a view that run after it is mounted.
mountEffects(view, e, u, l) ==
    IF view = "dashboard" /\ ~dashboardLoads(u)
    THEN [page |-> Mounted(view), loads |-> << >>, called |-> {}, ran |-> 0]
    ELSE [ran |-> 1] @@ loadData(view, e, Mounted(view), << >>, {})

\* A link of the sidebar is followed: the view shown is unmounted, so the
\* continuations of its loads set no state any more, and the next view is
\* mounted.
Navigate ==
    /\ nViewInputs < MaxViewInputs
    /\ nViewInputs' = nViewInputs + 1
    /\ \E view \in Views :
         LET next == mountEffects(view, env, user, isLoading)
         IN  /\ page' = next.page
             /\ loads' = SelectSeq(loads, LAMBDA l : l.view \in JoinedFetches)
                          \o next.loads
             /\ inFlight(loads') <= MaxPending
             /\ called' = next.called
             /\ nLoadData' = nLoadData + next.ran
             /\ pushed' = (view = "dashboard" /\ dashboardAuthCheck(user, isLoading))
    /\ UNCHANGED env
    /\ UNCHANGED edgeVars
    /\ UNCHANGED clientVars
    /\ UNCHANGED aggVars
    /\ UNCHANGED reportVars
    /\ UNCHANGED analyticsVars
    /\ UNCHANGED formVars
    /\ UNCHANGED statusVars
    /\ UNCHANGED navVars

\* useAuth() gives another user or another isLoading; the effects of
\* DashboardPage that depend on them run again.
UseAuthChanges ==
    /\ nViewInputs < MaxViewInputs
    /\ nViewInputs' = nViewInputs + 1
    /\ \E u \in {NoUser, "u1", "u2"}, l \in BOOLEAN :
         /\ <<u, l>> # <<user, isLoading>>
         /\ user' = u
         /\ isLoading' = l
         /\ IF page.view = "dashboard"
            THEN /\ pushed' = (pushed \/ dashboardAuthCheck(u, l))
                 /\ IF u # user /\ dashboardLoads(u)
                    THEN LET next == loadData("dashboard", env, page, loads, called)
                         IN  /\ inFlight(next.loads) <= MaxPending
                             /\ page' = next.page
                             /\ loads' = next.loads
                             /\ called' = next.called
                             /\ nLoadData' = nLoadData + 1
                    ELSE UNCHANGED <<page, loads, called, nLoadData>>
            ELSE UNCHANGED <<page, loads, called, pushed, nLoadData>>
    /\ UNCHANGED env
    /\ UNCHANGED <<apVariant, mounted, session, pathname, providerSession,
                   calls, subPath, pendingNav, so, lastStep, nInputs>>
    /\ UNCHANGED edgeVars
    /\ UNCHANGED aggVars
    /\ UNCHANGED reportVars
    /\ UNCHANGED analyticsVars
    /\ UNCHANGED formVars
    /\ UNCHANGED statusVars
    /\ UNCHANGED navVars

\* One of the calls in flight resolves; the fetch functions catch the errors
\* of their reads, so none of them rejects.
ReadResolves ==
    /\ \E i \in DOMAIN loads : \E k \in DOMAIN loads[i].reads :
         /\ k \notin loads[i].resolved
         /\ loads' = [loads EXCEPT ![i].resolved = @ \cup {k}]
    /\ UNCHANGED <<env, page, called, pushed, nViewInputs, nLoadData>>
    /\ UNCHANGED edgeVars
    /\ UNCHANGED clientVars
    /\ UNCHANGED aggVars
    /\ UNCHANGED reportVars
    /\ UNCHANGED analyticsVars
    /\ UNCHANGED formVars
    /\ UNCHANGED statusVars
    /\ UNCHANGED navVars

\* loadData after the await: the results are put into the state and the
\* finally block clears loading.
LoadSettles ==
    /\ \E i \in DOMAIN loads :
         /\ loads[i].view \in Views
         /\ joined(loads[i])
         /\ page' = [page EXCEPT !.data = results(loads[i]), !.loading = FALSE]
         /\ loads' = without(loads, i)
    /\ UNCHANGED <<env, called, pushed, nViewInputs, nLoadData>>
    /\ UNCHANGED edgeVars
    /\ UNCHANGED clientVars
    /\ UNCHANGED aggVars
    /\ UNCHANGED reportVars
    /\ UNCHANGED analyticsVars
    /\ UNCHANGED formVars
    /\ UNCHANGED statusVars
    /\ UNCHANGED navVars

\* fetchRevenueSummary or fetchRevenueByMonth is called on its own and
\* issues its three reads.
CallJoinedFetch ==
    /\ nViewInputs < MaxViewInputs
    /\ nViewInputs' = nViewInputs + 1
    /\ \E fn \in JoinedFetches :
         /\ loads' = Append(loads, Load(fn))
         /\ inFlight(loads') <= MaxPending
    /\ UNCHANGED <<env, page, called, pushed, nLoadData>>
    /\ UNCHANGED edgeVars
    /\ UNCHANGED clientVars
    /\ UNCHANGED aggVars
    /\ UNCHANGED reportVars
    /\ UNCHANGED analyticsVars
    /\ UNCHANGED formVars
    /\ UNCHANGED statusVars
    /\ UNCHANGED navVars

\* The function goes on after its await: it aggregates the three results and
\* returns.
JoinedFetchSettles ==
    /\ \E i \in DOMAIN loads :
         /\ loads[i].view \in JoinedFetches
         /\ joined(loads[i])
         /\ returned' = Result(loads[i].view, 0, FALSE, results(loads[i]))
         /\ loads' = without(loads, i)
    /\ UNCHANGED <<locale, tz, table>>
    /\ UNCHANGED <<env, page, called, pushed, nViewInputs, nLoadData>>
    /\ UNCHANGED edgeVars
    /\ UNCHANGED clientVars
    /\ UNCHANGED reportVars
    /\ UNCHANGED analyticsVars
    /\ UNCHANGED formVars
    /\ UNCHANGED statusVars
    /\ UNCHANGED navVars

ViewInit ==
    /\ env \in [url : BOOLEAN, anonKey : BOOLEAN]
    /\ page = [view |-> "none", loading |-> FALSE, error |-> NoMessage, data |-> << >>]
    /\ loads = << >>
    /\ called = {}
    /\ pushed = FALSE
    /\ nViewInputs = 0
    /\ nLoadData = 0
    /\ AnalyticsStart
    /\ NavStart
    /\ StatusStart
    /\ FormStart
    /\ mwVariant = "mw1"
    /\ EdgeStart
    /\ apVariant = "ap1"
    /\ pathname = RootPath
    /\ providerSession = NoSession
    /\ ClientStart
    /\ AggStart
    /\ ReportStart

ViewNext ==
    \/ Navigate
    \/ UseAuthChanges
    \/ ReadResolves
    \/ LoadSettles
    \/ CallJoinedFetch
    \/ JoinedFetchSettles

ViewSpec == ViewInit /\ [][ViewNext]_vars

----------------------------------------------------------------------------
(* SupabaseStatus *)

\* Connection checks in flight at once.
MaxChecks == 2

\* How the query of a connection check ends: with rows, with an error object
\* of the remote service, or with an Error thrown by the request.
CheckOutcomes == {"rows", "error", "thrown"}

\* err instanceof Error ? err.message : "Could not connect to Supabase"
messageOf(outcome) ==
    IF outcome = "thrown" THEN "Failed to fetch" ELSE "Could not connect to Supabase"

\* A slip: the state is set without the test of isMounted.
checkConnectionUnguarded(st, msg, outcome, isMounted) ==
    IF outcome = "rows"
    THEN [status |-> "connected", errorMessage |-> msg]
    ELSE [status |-> "error", errorMessage |-> messageOf(outcome)]

\* checkConnection after the await: the state is set only if isMounted.
checkConnection(st, msg, outcome, isMounted) ==
    IF ~isMounted
    THEN [status |-> st, errorMessage |-> msg]
    ELSE IF outcome = "rows"
         THEN [status |-> "connected", errorMessage |-> msg]
         ELSE [status |-> "error", errorMessage |-> messageOf(outcome)]

\* The component is mounted: its state is constructed and the effect runs,
\* with an isMounted of its own, and starts the check.
MountStatus ==
    /\ ~statusMounted
    /\ Len(checks) < MaxChecks
    /\ statusMounted' = TRUE
    /\ status' = "loading"
    /\ errorMessage' = NoMessage
    /\ checks' = Append(checks, [isMounted |-> TRUE])
    /\ UNCHANGED lastCheck
    /\ UNCHANGED edgeVars
    /\ UNCHANGED clientVars
    /\ UNCHANGED aggVars
    /\ UNCHANGED reportVars
    /\ UNCHANGED analyticsVars
    /\ UNCHANGED formVars
    /\ UNCHANGED viewVars
    /\ UNCHANGED navVars

\* The component is unmounted: the cleanup of the effect clears isMounted.
UnmountStatus ==
    /\ statusMounted
    /\ statusMounted' = FALSE
    /\ checks' = [i \in DOMAIN checks |-> [isMounted |-> FALSE]]
    /\ UNCHANGED <<status, errorMessage, lastCheck>>
    /\ UNCHANGED edgeVars
    /\ UNCHANGED clientVars
    /\ UNCHANGED aggVars
    /\ UNCHANGED reportVars
    /\ UNCHANGED analyticsVars
    /\ UNCHANGED formVars
    /\ UNCHANGED viewVars
    /\ UNCHANGED navVars

\* The query of a check in flight ends and checkConnection goes on; a
\* client without its URL or key gets no rows.
CheckSettles ==
    /\ \E i \in DOMAIN checks, outcome \in CheckOutcomes :
         /\ outcome = "rows" => configured(env)
         /\ LET next == checkConnection(status, errorMessage, outcome, checks[i].isMounted)
            IN  /\ status' = next.status
                /\ errorMessage' = next.errorMessage
                /\ lastCheck' = [outcome |-> outcome, isMounted |-> checks[i].isMounted]
                /\ checks' = SubSeq(checks, 1, i - 1) \o SubSeq(checks, i + 1, Len(checks))
    /\ UNCHANGED statusMounted
    /\ UNCHANGED edgeVars
    /\ UNCHANGED clientVars
    /\ UNCHANGED aggVars
    /\ UNCHANGED reportVars
    /\ UNCHANGED analyticsVars
    /\ UNCHANGED formVars
    /\ UNCHANGED viewVars
    /\ UNCHANGED navVars

StatusNext ==
    \/ MountStatus
    \/ UnmountStatus
    \/ CheckSettles

StatusSpec == ViewInit /\ [][StatusNext]_vars

----------------------------------------------------------------------------
(* Chains of redirects: the guard, the callback route and the client *)

Arrivals ==
    {[code |-> code, exchange |-> exchange] :
        code \in Codes, exchange \in Exchanges}

\* The session a getSession() of the client returns.
sessionOf(sees) == IF sees THEN [user |-> "u1", token |-> 1] ELSE NoSession

\* The navigations the client issues once the page at path is shown: the
\* session check of AuthPage on /auth, the routing of the AuthProvider (the
\* variant that routes does so at each path), the auth check of
\* DashboardPage on /dashboard.
clientNavs(variant, path, sees) ==
    (IF path = AuthPath THEN checkSession("ok", sessionOf(sees)) ELSE << >>)
    \o getSession(variant, [session |-> NoSession, user |-> NoUser, isLoading |-> TRUE],
                  "ok", sessionOf(sees), path).navs
    \o (IF path = DashboardPath /\ dashboardAuthCheck(userOf(sessionOf(sees)), FALSE)
        THEN <<Nav("push", AuthPath)>>
        ELSE << >>)

\* One more redirect to a path; the count stops at two.
countRedirect(counts, to) ==
    [counts EXCEPT ![to] = IF @ < 2 THEN @ + 1 ELSE @]

RECURSIVE countRedirects(_, _)
countRedirects(counts, navs) ==
    IF navs = << >> THEN counts
    ELSE countRedirects(countRedirect(counts, navs[1].to), Tail(navs))

\* The request reaches the edge: the callback route answers a request to the
\* callback path, the middleware a path of its matcher; any other path is
\* served.  The browser follows a redirect with a request of the target.
EdgeResponds ==
    /\ stage = "request"
    /\ LET resp == IF location = CallbackPath
                   THEN GET(arrival.code, arrival.exchange)
                   ELSE IF matcher(mwVariant, location)
                        THEN middleware(mwVariant, location, guardSees, FALSE).resp
                        ELSE ResNext("none")
       IN  IF resp.kind = "redirect"
           THEN /\ location' = resp.to
                /\ redirected' = countRedirect(redirected, resp.to)
                /\ stage' = "request"
           ELSE /\ stage' = "served"
                /\ UNCHANGED <<location, redirected>>
    /\ UNCHANGED <<guardSees, clientSees, arrival>>
    /\ UNCHANGED edgeVars
    /\ UNCHANGED clientVars
    /\ UNCHANGED aggVars
    /\ UNCHANGED reportVars
    /\ UNCHANGED analyticsVars
    /\ UNCHANGED formVars
    /\ UNCHANGED viewVars
    /\ UNCHANGED statusVars

\* The page is shown and its effects run: the router carries out the
\* navigations they issue, which asks the edge for the target; a page that
\* issues none stays.
ClientEffects ==
    /\ stage = "served"
    /\ LET navs == clientNavs(apVariant, location, clientSees)
       IN  IF navs = << >>
           THEN /\ stage' = "settled"
                /\ UNCHANGED <<location, redirected>>
           ELSE /\ location' = navs[Len(navs)].to
                /\ redirected' = countRedirects(redirected, navs)
                /\ stage' = "request"
    /\ UNCHANGED <<guardSees, clientSees, arrival>>
    /\ UNCHANGED edgeVars
    /\ UNCHANGED clientVars
    /\ UNCHANGED aggVars
    /\ UNCHANGED reportVars
    /\ UNCHANGED analyticsVars
    /\ UNCHANGED formVars
    /\ UNCHANGED viewVars
    /\ UNCHANGED statusVars

\* A request of any path, with any pair of session views; a successful
\* exchange of a code leaves a session in the cookies.
NavInit ==
    /\ mwVariant \in MwVariants
    /\ apVariant \in ApVariants
    /\ guardSees \in BOOLEAN
    /\ clientSees \in BOOLEAN
    /\ location \in Paths
    /\ arrival \in Arrivals
    /\ IF location = CallbackPath
       THEN /\ (arrival.code = "abc") <=> (arrival.exchange # "notcalled")
            /\ arrival.exchange = "ok" => guardSees
       ELSE arrival = [code |-> "absent", exchange |-> "notcalled"]
    /\ stage = "request"
    /\ redirected = [p \in Paths |-> 0]
    /\ EdgeStart
    /\ pathname = RootPath
    /\ providerSession = NoSession
    /\ ClientStart
    /\ AggStart
    /\ ReportStart
    /\ AnalyticsStart
    /\ FormStart
    /\ ViewStart
    /\ StatusStart

NavNext ==
    \/ EdgeResponds
    \/ ClientEffects

NavSpec == NavInit /\ [][NavNext]_vars

\* The edge answers every request and the effects of a shown page run.
NavLive == NavSpec /\ WF_vars(EdgeResponds) /\ WF_vars(ClientEffects)

----------------------------------------------------------------------------
(* Properties of the edge *)

GuardRan == nGuard > 0 /\ guard.matched

\* C1: when the middleware runs on a path that starts with /dashboard and
\* the session resolution succeeds, a request without a session is answered
\* with a redirect to /auth and a request with a session is passed through
\* without a redirect.
C1_ProtectedPrefix ==
    (GuardRan /\ startsWith(guard.path, DashboardPath) /\ ~guard.threw)
        => IF guard.hasSession
           THEN guard.resp.kind = "next"
           ELSE guard.resp.kind = "redirect" /\ guard.resp.to = AuthPath

C1_Witness ==
    /\ GuardRan /\ guard.path = DashboardSub /\ ~guard.threw /\ ~guard.hasSession
    /\ guard.resp.kind = "redirect" /\ guard.resp.to = AuthPath

\* C2: every request to /auth whose session resolution does not throw is
\* answered with a redirect to /dashboard when it carries a session, and is
\* passed through when it carries none.
C2_PublicAuthPath ==
    (nGuard > 0 /\ guard.path = AuthPath /\ ~guard.threw)
        => IF guard.hasSession
           THEN guard.resp.kind = "redirect" /\ guard.resp.to = DashboardPath
           ELSE guard.resp.kind = "next"

\* C3: whenever the session resolution throws, the middleware has made
\* exactly one resolution attempt and answers with the pass-through
\* response, on every matched path.
C3_FailOpen ==
    (nGuard > 0 /\ guard.threw)
        => guard.matched /\ guard.attempts = 1 /\ guard.resp.kind = "next"

C3_Witness ==
    /\ GuardRan /\ guard.threw /\ guard.path = AuthPath /\ guard.hasSession
    /\ guard.resp.kind = "next"

CodeExchanged == callback.code = "abc" /\ callback.exchange = "ok"

\* C9 as stated: the callback response is always a redirect, to /dashboard
\* exactly when a code was exchanged for a session without error, and to
\* /auth with an error query parameter otherwise.
C9_Original ==
    nCallback > 0
        => /\ callback.resp.kind = "redirect"
           /\ IF CodeExchanged
              THEN callback.resp.to = DashboardPath
              ELSE callback.resp.to = AuthPath /\ callback.resp.query # "none"

\* C9 amended: the callback response is always a redirect; it targets /auth
\* with an error query parameter exactly when the exchange returned an error
\* or an exception was thrown, and /dashboard without an error parameter in
\* every other case: a code exchanged without error, and a request that
\* carries no code (missing or empty), for which no exchange is attempted.
C9_CallbackRedirect ==
    nCallback > 0
        => /\ callback.resp.kind = "redirect"
           /\ IF callback.exchange \in {"error", "throws"}
              THEN callback.resp.to = AuthPath /\ callback.resp.query # "none"
              ELSE /\ callback.resp.to = DashboardPath /\ callback.resp.query = "none"
                   /\ (CodeExchanged \/ callback.code \in {"absent", "empty"})

C9_Witness ==
    /\ nCallback > 0 /\ callback.code = "absent" /\ callback.exchange = "notcalled"
    /\ callback.resp.kind = "redirect" /\ callback.resp.to = DashboardPath

----------------------------------------------------------------------------
(* Properties of the client *)

ToAuth(navs) == \E i \in DOMAIN navs : navs[i].to = AuthPath

\* C4: whenever the session retrieval of AuthProvider returns an error or
\* throws, at the initial load or at a re-run of the check, the in-memory
\* session and user are both null afterwards.
C4_FailClosed ==
    (lastStep.op = "getSession" /\ lastStep.outcome \in {"error", "throws"})
        => session = NoSession /\ user = NoUser

\* C5: every session-change notification sets the in-memory session and
\* user to the notified session and applies the routing policy to the
\* current path: a session on /auth navigates to /dashboard, no session on
\* a path under /dashboard navigates to /auth.
C5_NotifyAndRoute ==
    lastStep.notified
        => /\ session = lastStep.result
           /\ user = userOf(lastStep.result)
           /\ lastStep.navs = routing(lastStep.result, pathname)

\* C6: when a session check started at load finds the session state, the
\* routing policy issues exactly the navigation of the policy for the
\* current path (one replace-navigation to /dashboard with a session on
\* /auth, one to /auth without a session under /dashboard, none otherwise),
\* and every navigation issued by a session check replaces the history
\* entry.
C6_RoutingAtLoad ==
    /\ (lastStep.op = "getSession" /\ lastStep.outcome = "ok")
          => lastStep.navs = routing(lastStep.result, pathname)
    /\ (lastStep.op \in {"getSession", "checkSession"})
          => \A i \in DOMAIN lastStep.navs : lastStep.navs[i].kind = "replace"

\* C8: when signOut returns it has issued a navigation to /auth, whether
\* the remote sign-out succeeded or failed, and after a successful remote
\* sign-out the session was invalidated before the navigation was issued.
C8_SignOutNavigates ==
    lastStep.op = "signOut"
        => /\ ToAuth(lastStep.navs)
           /\ (lastStep.outcome = "ok" => lastStep.invalidated)

\* C7: after AuthProvider mounts, isLoading eventually becomes false,
\* whatever the outcome of the initial session retrieval is (a session, no
\* session, a provider error, a thrown exception).
C7_LoadingEnds == mounted ~> ~isLoading

C7_Witness ==
    /\ mounted /\ ~isLoading
    /\ lastStep.op = "getSession" /\ lastStep.outcome = "error"

----------------------------------------------------------------------------
(* Properties of the aggregation *)

\* The rows the last fetch read.
fetched ==
    IF returned.kind = "expenses"
    THEN select(table, "expense", startDate(returned.year), endDate(returned.year))
    ELSE IF returned.kind = "pageExpenses"
    THEN SelectSeq(fetchExpenses(table, NoDate, NoDate, FALSE),
                   LAMBDA r : localYear(r.date, tz) = returned.year)
    ELSE fetchOrders(table, startDate(returned.year), endDate(returned.year), FALSE)
         \o fetchMarkets(table, startDate(returned.year), endDate(returned.year), FALSE)
         \o fetchCourses(table, startDate(returned.year), endDate(returned.year), FALSE)

amountIsZero(e) ==
    IF returned.kind = "revenue" THEN e.totalRevenue = 0 ELSE e.total = Num(0)

\* C10: whenever fetchMonthlyExpenses or fetchRevenueByMonth has read its
\* rows, for every table and target year, the returned has exactly 12 entries
\* labelled Jan, Feb, ..., Dec in this order, and a month in which none of
\* the rows falls has amount 0.
C10_TwelveMonths ==
    (returned.kind # "none" /\ ~returned.readFails)
        => /\ Len(returned.entries) = 12
           /\ \A i \in 1..12 :
                /\ returned.entries[i].month = months[i]
                /\ (\A k \in DOMAIN fetched : localMonth(fetched[k].date, tz) # i)
                       => amountIsZero(returned.entries[i])

RECURSIVE sumAmounts(_)
sumAmounts(rows) ==
    IF rows = << >> THEN 0 ELSE Head(rows).amount + sumAmounts(Tail(rows))

\* The expenses of the table dated in month i of the year.
expensesOfMonth(year, i) ==
    SelectSeq(table, LAMBDA r : r.source = "expense" /\ r.date.y = year /\ r.date.m = i)

\* C11: whenever a monthly bucketing of the expenses (fetchMonthlyExpenses of
\* the data layer or of ReportsPage) has read its rows, each of the 12
\* buckets holds the sum of the amounts of the expenses dated in that
\* calendar month of the target year, so that the 12 buckets add up to the
\* in-year total and a row of another year is in no bucket.
C11_Conservation ==
    (returned.kind \in {"expenses", "pageExpenses"} /\ ~returned.readFails)
        => \A i \in 1..12 :
             returned.entries[i].total = Num(sumAmounts(expensesOfMonth(returned.year, i)))

----------------------------------------------------------------------------
(* Properties of the profit/loss report *)

\* The rows of the report: one per month label of either list, a side that
\* is missing taken as 0, profit = revenue - expenses, and the margin
\* profit / revenue * 100 where withMargin(revenue) holds and 0 elsewhere.
ProfitLossRows(withMargin(_)) ==
    LET keys == labels(monthlyRevenue) \cup labels(monthlyExpenses)
    IN  /\ Len(profitLossData) = Cardinality(keys)
        /\ {profitLossData[i].month : i \in DOMAIN profitLossData} = keys
        /\ \A i \in DOMAIN profitLossData :
             LET row == profitLossData[i]
             IN  /\ row.month \notin labels(monthlyRevenue) => row.revenue = Q(0, 1)
                 /\ row.month \notin labels(monthlyExpenses) => row.expenses = Q(0, 1)
                 /\ row.month \in labels(monthlyRevenue)
                      => row.revenue = orZero(revenueByMonth(monthlyRevenue, row.month))
                 /\ row.month \in labels(monthlyExpenses)
                      => row.expenses = orZero(expensesByMonth(monthlyExpenses, row.month))
                 /\ row.profit = qsub(row.revenue, row.expenses)
                 /\ row.profitMargin =
                      IF withMargin(row.revenue)
                      THEN qmul(qdiv(row.profit, row.revenue), Q(100, 1))
                      ELSE Q(0, 1)

\* C12 as stated: the report has one row per month label of either list,
\* a missing side is 0, profit = revenue - expenses, and profitMargin is
\* profit / revenue * 100 unless revenue is 0, where it is 0.
C12_Original ==
    ~loading => ProfitLossRows(LAMBDA r : r # Q(0, 1))

\* C12: the report has one row per month label of either list, a missing
\* side is 0, profit = revenue - expenses, and profitMargin is
\* profit / revenue * 100 when revenue is positive and 0 when revenue is 0
\* or negative.
C12_ProfitLossRows ==
    ~loading => ProfitLossRows(LAMBDA r : qgt(r, Q(0, 1)))

\* A report with a month that only the expense list has and a row of
\* negative revenue.
C12_Witness ==
    /\ ~loading
    /\ \E i \in DOMAIN profitLossData :
         /\ profitLossData[i].month \notin labels(monthlyRevenue)
         /\ profitLossData[i].expenses = Q(40, 1)
    /\ \E i \in DOMAIN profitLossData :
         /\ qlt(profitLossData[i].revenue, Q(0, 1))
         /\ profitLossData[i].profitMargin = Q(0, 1)

calendarIndex(month) == CHOOSE i \in 1..12 : months[i] = month

\* C13: the rows of the report are in calendar order of their months, Jan
\* before Feb and so on to Dec.
C13_CalendarOrder ==
    ~loading
        => \A i, j \in DOMAIN profitLossData :
             i < j => calendarIndex(profitLossData[i].month)
                        < calendarIndex(profitLossData[j].month)

----------------------------------------------------------------------------
(* Properties of the revenue summary *)

\* The rows of a source that the last read returned: those of the window
\* asked for, of the orders the paid ones, none if the read failed.
rowsReturned(source) ==
    IF returned.readFails
    THEN {}
    ELSE {i \in DOMAIN table :
            /\ table[i].source = source
            /\ returned.dateFrom # NoDate => DateLeq(returned.dateFrom, table[i].date)
            /\ returned.dateTo # NoDate => DateLeq(table[i].date, returned.dateTo)
            /\ source = "order" => table[i].status = "completed"}

RECURSIVE sumAmount(_)
sumAmount(S) ==
    IF S = {} THEN 0
    ELSE LET i == CHOOSE i \in S : TRUE
         IN  table[i].amount + sumAmount(S \ {i})

RECURSIVE sumShipping(_)
sumShipping(S) ==
    IF S = {} THEN 0
    ELSE LET i == CHOOSE i \in S : TRUE
         IN  table[i].shipping + sumShipping(S \ {i})

\* C14: the summary that fetchRevenueSummary returns for a date window has
\* orderRevenue = the sum of total_amount + shipping_cost of the orders
\* returned, marketRevenue = the sum of final_incoming, courseRevenue = the
\* sum of total_amount of the courses, totalRevenue = the sum of the three,
\* and the three counts equal to the numbers of rows returned.
C14_RevenueSummary ==
    returned.kind = "summary"
        => LET s == returned.entries
           IN  /\ s.orderRevenue = sumAmount(rowsReturned("order"))
                                   + sumShipping(rowsReturned("order"))
               /\ s.marketRevenue = sumAmount(rowsReturned("market"))
               /\ s.courseRevenue = sumAmount(rowsReturned("course"))
               /\ s.totalRevenue = s.orderRevenue + s.marketRevenue + s.courseRevenue
               /\ s.orderCount = Cardinality(rowsReturned("order"))
               /\ s.marketCount = Cardinality(rowsReturned("market"))
               /\ s.courseCount = Cardinality(rowsReturned("course"))

\* A summary over January 2024 that counts one paid order while the other
\* row of the table lies outside the window, is unpaid or was not read.
C14_Witness ==
    /\ returned.kind = "summary"
    /\ ~returned.readFails
    /\ returned.dateTo = Date(2024, 1, 31)
    /\ returned.entries.orderCount = 1
    /\ returned.entries.orderRevenue = 55
    /\ Len(table) = 2
    /\ returned.entries.marketCount + returned.entries.courseCount = 0

\* The total revenue of the rows the last read returned.
totalReturned ==
    sumAmount(rowsReturned("order")) + sumShipping(rowsReturned("order"))
    + sumAmount(rowsReturned("market")) + sumAmount(rowsReturned("course"))

\* C15: the Orders, Markets and Courses percentages of fetchRevenueBySource
\* and of the dashboard breakdown sum to 100 when the total revenue is
\* positive, and are all 0 when the total revenue is 0.
C15_Percentages ==
    returned.kind \in {"bySource", "breakdown"}
        => LET p == returned.entries
           IN  /\ totalReturned > 0
                     => qadd(qadd(p[1].percentage, p[2].percentage), p[3].percentage)
                          = Q(100, 1)
               /\ totalReturned = 0
                     => \A i \in 1..3 : p[i].percentage = Q(0, 1)

----------------------------------------------------------------------------
(* Properties of the month-over-month change *)

changeReturned == returned.kind \in {"monthOverMonth", "expenseChange"}

\* C16 as stated: the change of revenue and of expenses is
\* (current - previous) / previous * 100 for every previous value other
\* than 0, and 0 when previous is 0.
C16_Original ==
    changeReturned
        => LET e == returned.entries
           IN  e.percentChange =
                   IF e.previous # 0
                   THEN qmul(qdiv(Q(e.current - e.previous, 1), Q(e.previous, 1)),
                             Q(100, 1))
                   ELSE Q(0, 1)

\* C16: the change of revenue and of expenses is
\* (current - previous) / previous * 100 when previous is positive, and 0
\* when previous is 0 or negative, whatever the current value.
C16_MonthOverMonth ==
    changeReturned
        => LET e == returned.entries
           IN  e.percentChange =
                   IF e.previous > 0
                   THEN qmul(qdiv(Q(e.current - e.previous, 1), Q(e.previous, 1)),
                             Q(100, 1))
                   ELSE Q(0, 1)

\* C16 witness: an expense change that was computed from a positive total
\* of the last month and a different total of the current month.
C16_Witness ==
    /\ returned.kind = "expenseChange"
    /\ returned.entries.previous > 0
    /\ returned.entries.current # returned.entries.previous
    /\ returned.entries.percentChange # Q(0, 1)

----------------------------------------------------------------------------
(* Properties of the forecast *)

withinClamp(rate) ==
    /\ rate.k = "num"
    /\ 0 - rate.d <= 5 * rate.n
    /\ 5 * rate.n <= rate.d

\* C17: for every non-empty history the revenue growth rate and the expense
\* growth rate used for the projection lie in [-0.2, 0.2].
C17_RatesClamped ==
    combinedData # << >>
        => /\ withinClamp(avgRevenueGrowth(combinedData))
           /\ withinClamp(avgExpenseGrowth(combinedData))

\* The rows of forecastData that follow the combined rows.
forecastRows == SubSeq(forecastData, Len(combinedData) + 1, Len(forecastData))

\* C18: for a non-empty history the forecast has exactly 6 periods, period n
\* having revenue and expenses equal to the last known value times
\* (1 + rate)^n; with a history of one point the rate is 0 and the 6 values
\* equal the last known value.
C18_SixPeriods ==
    combinedData # << >>
        => LET lastMonth == combinedData[Len(combinedData)]
               revenueRate == avgRevenueGrowth(combinedData)
               expenseRate == avgExpenseGrowth(combinedData)
           IN  /\ Len(forecastRows) = 6
               /\ \A n \in DOMAIN forecastRows :
                     /\ forecastRows[n].isForecast
                     /\ forecastRows[n].revenue =
                            qmul(lastMonth.revenue, MathPow(qadd(Q(1, 1), revenueRate), n))
                     /\ forecastRows[n].expenses =
                            qmul(lastMonth.expenses, MathPow(qadd(Q(1, 1), expenseRate), n))
               /\ Len(combinedData) < 2
                     => /\ revenueRate = Q(0, 1)
                        /\ expenseRate = Q(0, 1)
                        /\ \A n \in DOMAIN forecastRows :
                              /\ forecastRows[n].revenue = lastMonth.revenue
                              /\ forecastRows[n].expenses = lastMonth.expenses

\* C18 witness: a history of two months whose revenue doubled: the growth is
\* cut to 20 % and the sixth period holds 250 * 1.2^6.
C18_Witness ==
    /\ Len(combinedData) = 2
    /\ combinedData[1].revenue = Q(125, 1)
    /\ combinedData[2].revenue = Q(250, 1)
    /\ Len(forecastRows) = 6
    /\ forecastRows[6].revenue = Q(250 * 46656, 15625)

----------------------------------------------------------------------------
(* Properties of the order of the rows *)

\* The tables that hold the rows of tbl in another order.
permuted(tbl) ==
    {[i \in DOMAIN tbl |-> tbl[f[i]]] : f \in Permutations(DOMAIN tbl)}

\* C19: the revenue summary and the monthly buckets that were returned are
\* those of every other order of the same rows.
C19_OrderIndependent ==
    \A p \in permuted(table) :
        /\ returned.kind = "marketSummary"
              => marketRevenueSummary(p, returned.dateFrom, returned.dateTo,
                                      returned.readFails) = returned.entries
        /\ returned.kind = "marketsByMonth"
              => marketRevenueByMonth(p, returned.year, returned.readFails,
                                      locale, tz) = returned.entries

----------------------------------------------------------------------------
(* Properties of the failed read *)

\* What a read function gives when there is nothing to give; any value
\* counts as the default of fetchProfile.
isEmptyResult(fn, value) ==
    CASE fn = "fetchTotalExpenses" -> value = 0
      [] fn = "fetchRevenueSummary" -> value = Summary(<< >>, << >>, << >>)
      [] fn = "fetchProfile" -> TRUE
      [] OTHER -> value = << >>

\* C20: a call of a read function whose remote read failed has resolved, to
\* the empty or zero result of the function.
C20_ReadsResolve ==
    (returned.kind \in ReadFunctions /\ returned.readFails)
        => /\ returned.settled = "resolved"
           /\ isEmptyResult(returned.kind, returned.entries)

----------------------------------------------------------------------------
(* Properties of the writes *)

\* The step in which the insertExpense call of a form that is still shown
\* settles with an error.
insertFailed ==
    /\ pendingInsert.inFlight
    /\ ~pendingInsert'.inFlight
    /\ lastWrite'.settled = "rejected"
    /\ ~navigated

\* C21: a write function whose remote write returned an error throws; and
\* when the insertExpense of a submission throws, every field keeps its
\* value, the error message is set, there is no success message, no redirect
\* is scheduled or made, and loading is false.
C21_WriteFailure ==
    [][/\ lastWrite'.writeFails => lastWrite'.settled = "rejected"
       /\ insertFailed
            => /\ \A name \in FieldNames : form'[name] = form[name]
               /\ form'.error = FailedMessage
               /\ form'.success = NoMessage
               /\ timers' = timers
               /\ navigated' = navigated
               /\ form'.loading = FALSE]_vars

\* C21 witness: the insertExpense of a filled form has thrown; the form
\* shows the error and still holds what was entered.
C21_Witness ==
    /\ lastWrite.fn = "insertExpense"
    /\ lastWrite.settled = "rejected"
    /\ ~pendingInsert.inFlight
    /\ form.error = FailedMessage
    /\ form.description = "rent"
    /\ form.amount = "30"
    /\ ~form.loading

----------------------------------------------------------------------------
(* Properties of the combined rows *)

\* C29: every combined row has profit = revenue - expenses, a month that only
\* one of the two inputs holds included, and the rows are in calendar order
\* with one row per month label.
C29_CombinedRows ==
    /\ \A i \in DOMAIN combinedData :
         combinedData[i].profit
            = qsub(combinedData[i].revenue, combinedData[i].expenses)
    /\ \A i, j \in DOMAIN combinedData :
         i < j => calendarIndex(combinedData[i].month)
                    < calendarIndex(combinedData[j].month)

----------------------------------------------------------------------------
(* Properties of the views *)

\* C22: when the endpoint URL or the anonymous key is missing, the load of
\* a view (dashboard, expenses, revenue, reports, analytics) calls no
\* data-access function, sets the configuration-error message and ends with
\* loading false.
C22_ConfigurationError ==
    (~configured(env) /\ page.view \in Views
        /\ (page.view = "dashboard" => user # NoUser))
        => /\ called = {}
           /\ page.error = CredentialsMessage
           /\ ~page.loading

\* C23: the state update of a view load, and the aggregation of
\* fetchRevenueSummary and fetchRevenueByMonth, run only after every read
\* issued concurrently has resolved, in whatever order: the state of a view
\* and the value returned hold the results of all the reads, never those of
\* a subset.
C23_JoinBeforeAggregation ==
    /\ page.view \in Views
         => page.data \in {<< >>, ViewReads[page.view]}
    /\ returned.kind \in JoinedFetches
         => returned.entries = ViewReads[returned.kind]

\* C23 witness: the revenue view has put the results of its three calls into
\* its state while the three reads of a fetchRevenueSummary called on its
\* own have resolved in part, the last of them first.
C23_Witness ==
    /\ page.view = "revenue"
    /\ page.data = ViewReads["revenue"]
    /\ ~page.loading
    /\ \E i \in DOMAIN loads :
         /\ loads[i].view = "fetchRevenueSummary"
         /\ loads[i].resolved = {3}

\* A step in which DashboardPage calls loadData.
dashboardLoadStarts == nLoadData' > nLoadData /\ page'.view = "dashboard"

\* C30: DashboardPage starts a data load, and so calls its data-access
\* functions, only when the context holds a user; once isLoading is false
\* and the user is null it has issued the navigation to /auth; no load is
\* started by the step of a sign-out or after it while the user is null.
C30_DashboardGating ==
    [][/\ dashboardLoadStarts => user' # NoUser
       /\ (called' # called /\ called' # {} /\ page'.view = "dashboard")
            => user' # NoUser
       /\ (page'.view = "dashboard" /\ ~isLoading' /\ user' = NoUser)
            => pushed']_vars

\* C30 witness: the dashboard was mounted with a user and has loaded once;
\* the user has signed out since, the navigation to /auth is issued and no
\* second load was started.
C30_Witness ==
    /\ page.view = "dashboard"
    /\ called # {}
    /\ nLoadData = 1
    /\ user = NoUser
    /\ ~isLoading
    /\ pushed

----------------------------------------------------------------------------
(* Properties of SupabaseStatus *)

\* C24: when SupabaseStatus was unmounted while its connection check was in
\* flight, the later end of the check, with rows or with an error, changes
\* neither status nor errorMessage.
C24_UnmountSafety ==
    [][(Len(checks') < Len(checks) /\ ~lastCheck'.isMounted)
         => /\ status' = status
            /\ errorMessage' = errorMessage]_vars

\* C24 witness: a check whose component was unmounted has ended with an
\* error, and the state is still the one the component had.
C24_Witness ==
    /\ lastCheck.outcome = "thrown"
    /\ ~lastCheck.isMounted
    /\ ~statusMounted
    /\ status = "loading"
    /\ errorMessage = NoMessage

----------------------------------------------------------------------------
(* Properties of the session held by AuthProvider *)

\* C28: in every state of AuthProvider, whatever the retrievals returned and
\* whatever session changes were notified, user is null exactly when session
\* is null and is the user of the session otherwise.
C28_SessionUser ==
    /\ (user = NoUser) <=> (session = NoSession)
    /\ session # NoSession => user = session.user

\* C28 witness: a session change was notified to the mounted provider and
\* the user held is the user of the session held.
C28_Witness ==
    /\ mounted
    /\ lastStep.op = "authEvent"
    /\ session \in Sessions
    /\ user = session.user

\* C27: once the retrievals and the notified session changes have all been
\* processed, the session held is the session of the provider, in whatever
\* order the continuation of a retrieval and the callback ran; and a
\* retrieval that was answered before a sign-out leaves no session behind
\* after it.
C27_LateRetrieval ==
    /\ (mounted /\ calls = EmptyBag /\ lastStep.op \in {"getSession", "authEvent"}
          /\ lastStep.outcome = "ok")
         => session = providerSession
    /\ (mounted /\ lastStep.op = "getSession" /\ lastStep.outcome = "ok"
          /\ providerSession = NoSession)
         => session = NoSession

----------------------------------------------------------------------------
(* Properties of the chains of redirects *)

C26_RedirectsSettle ==
    guardSees = clientSees
        => /\ \A p \in Paths : redirected[p] <= 1
           /\ stage = "settled"
                => IF guardSees
                   THEN matcherDashboard(location)
                   ELSE ~matcherDashboard(location)

====
